---- MODULE Spec2Model ----
(***************************************************************************)
(* A model of the redirect-object action.  run() calls main(), which      *)
(* checks its inputs (the build directory, the bucket name, the prefix,    *)
(* the parallel limit and the redirects document, with the validators of   *)
(* validation.ts and the file and fetch helpers of io.ts) and then runs    *)
(* the redirect-object pipeline of src/src/main.ts:                        *)
(* makeRedirectObjects groups the redirect rules by location,              *)
(* generateRedirectObjectsAsync turns each group into one lazily started   *)
(* createOrUpdateS3ObjectAsync operation, parallelGenerator runs at most   *)
(* `max` of them at a time and yields their outcomes, and the for-await    *)
(* loop of makeRedirectObjects counts them.                                *)
(*                                                                         *)
(* Strings are sequences of tokens (<<"/", "a">> is "/a"), so that         *)
(* endsWith, startsWith, slice and concatenation are computed.  An array   *)
(* is a function on 0 .. n-1, as in the code.  Promises are modelled by    *)
(* their state; a step of the model is one continuation of the program     *)
(* (the code that runs between two awaits).  The names the validators     *)
(* test are sequences of single characters, and their regular expressions  *)
(* are matched by a small matcher over the expression's structure.         *)
(*                                                                         *)
(* Spec is the run of the action, and WideSpec the run with one slot more  *)
(* than Spec allows, on one valid input.  CallSpec calls the exported      *)
(* validators and loadJSON by themselves, on arguments the run does not    *)
(* go through.                                                             *)
(*                                                                         *)
(* Where a statement's result is used by the next statement, the result    *)
(* is bound as the one element of a set ({ F(x) : x \in { e } }, or         *)
(* \E x \in { e } : ...), so that it is computed once, as in the code.      *)
(***************************************************************************)
EXTENDS Integers, Sequences, FiniteSets, TLC

VARIABLES
  buildAt,              \* input: what is at the path of the build input
  bucketInput,          \* input: the text of the bucket input
  prefixInput,          \* input: the text of the prefix input
  redirectsSource,      \* input: the text of the redirects input
  sourceWorld,          \* what reading (or fetching) the redirects source gives
  fetched,              \* the arguments of the calls of fetch
  call,                 \* an exported function called by itself, and its argument
  returned,             \* what that call returned
  redirects,            \* main: the redirect rules (the checked document)
  parallelInput,        \* input: the text of the parallel input
  parallel,             \* main: parseInt(core.getInput('parallel'), 10)
  buildFiles,           \* sub paths for which fs.access(buildPath/subPath) succeeds
  accessFails,          \* sub paths for which it fails with an error other than ENOENT
  s3,                   \* the bucket: full key -> object
  runPc,                \* where run() is
  redirectsByLocation,  \* the insertion-ordered Map of makeRedirectObjects
  srcPos,               \* number of groups the source generator has yielded
  ops,                  \* one createOrUpdateS3ObjectAsync promise per group
  tasks,                \* parallelGenerator: tasks
  tasksAndNull,         \* parallelGenerator: tasksAndNull
  genPc,                \* parallelGenerator: the await or yield it is suspended at
  winner,               \* the value the pending Promise.race has resolved with
  emitted,              \* the values parallelGenerator has yielded, in order
  processedCount,       \* makeRedirectObjects: processedCount
  errorCount,           \* makeRedirectObjects: errorCount
  finishedWith,         \* the count logged by "Finished with n error(s)"
  setFailed,            \* the arguments of the calls of core.setFailed
  started,              \* history: groups in the order their operation started
  settled               \* history: groups in the order their operation settled

env == << buildAt, bucketInput, prefixInput, redirectsSource, sourceWorld, call, returned >>
vars == << env, fetched, redirects, parallelInput, parallel, buildFiles, accessFails, s3, runPc, redirectsByLocation,
           srcPos, ops, tasks, tasksAndNull, genPc, winner, emitted,
           processedCount, errorCount, finishedWith, setFailed, started,
           settled >>

(***************************************************************************)
(* Bounds of the model.                                                    *)
(***************************************************************************)
MaxRules == 3
MaxParallel == 2

(***************************************************************************)
(* Strings.                                                                *)
(***************************************************************************)
EndsWith(s, c) == Len(s) > 0 /\ s[Len(s)] = c
StartsWith(s, c) == Len(s) > 0 /\ s[1] = c
Slice1(s) == SubSeq(s, 2, Len(s))

(***************************************************************************)
(* Arrays: functions on 0 .. n-1.                                          *)
(***************************************************************************)
EmptyArray == [k \in {} |-> 0]
Length(a) == Cardinality(DOMAIN a)
Push(a, v) == [k \in 0 .. Length(a) |-> IF k < Length(a) THEN a[k] ELSE v]
Null == [null |-> TRUE]

RECURSIVE FilterFrom(_, _)
FilterFrom(a, k) ==
  IF k >= Length(a) THEN EmptyArray
  ELSE LET rest == FilterFrom(a, k + 1)
           shifted == [j \in 1 .. Length(rest) |-> rest[j - 1]]
       IN  IF a[k] # Null
           THEN [j \in 0 .. Length(rest) |-> IF j = 0 THEN a[k] ELSE shifted[j]]
           ELSE rest
\* Array.prototype.filter((v) => v !== null)
FilterNotNull(a) == FilterFrom(a, 0)


(***************************************************************************)
(* The inputs the model draws from.  Rule values other than location are   *)
(* opaque; a rule has a pattern field or has none.                         *)
(***************************************************************************)
LocA == << "/", "a" >>
LocASlash == << "/", "a", "/" >>
LocB == << "b" >>
Rules ==
  { [location |-> LocA, redirect |-> "/x"],
    [location |-> LocA, redirect |-> "/y", pattern |-> "^/a-old$"],
    [location |-> LocASlash, redirect |-> "/x"],
    [location |-> LocB, redirect |-> "/x", pattern |-> "^/b(.*)$"] }
RuleLists == UNION { [1 .. n -> Rules] : n \in 0 .. MaxRules }
\* The texts of the parallel input: a decimal digit, a negative number, or
\* no number at all.
ParallelInputs ==
  { << ToString(n) >> : n \in 0 .. MaxParallel } \cup { << "-", "1" >>, << "x" >> }
Prefix == << "p", "r", "-", "1" >>
KeyA == << "a", "/", "index.html" >>
KeyB == << "b", "/", "index.html" >>
KeyOther == << "other.html" >>
\* The build directory and the bucket before the run.  In the first the two
\* are in step (a/index.html is in both, b/index.html in neither); in the
\* second and the fourth they have diverged (a/index.html is only in the
\* bucket, b/index.html only in the build directory).  A file that is not in
\* the build directory is missing (ENOENT), or the probe of it fails for
\* another reason: permission (EACCES) or an I/O error (EIO).
NoFails == [p \in {} |-> "ok"]
Worlds ==
  { [files |-> {KeyA, KeyOther}, objects |-> {KeyA, KeyOther}, fails |-> NoFails],
    [files |-> {KeyB, KeyOther}, objects |-> {KeyA, KeyOther},
     fails |-> (KeyA :> "EACCES")],
    [files |-> {KeyA, KeyOther}, objects |-> {KeyA, KeyOther},
     fails |-> (KeyB :> "EIO")],
    [files |-> {KeyB, KeyOther}, objects |-> {KeyA, KeyOther}, fails |-> NoFails] }

(***************************************************************************)
(* makeRedirectObjects: grouping by location (an insertion-ordered Map,    *)
(* here a sequence of [location, redirects] entries).                      *)
(***************************************************************************)
MapHas(map, location) == \E k \in 1 .. Len(map) : map[k].location = location
MapSet(map, location, value) ==
  IF MapHas(map, location)
  THEN [k \in 1 .. Len(map) |->
          IF map[k].location = location
          THEN [location |-> location, redirects |-> value] ELSE map[k]]
  ELSE Append(map, [location |-> location, redirects |-> value])
MapPush(map, location, redirect) ==
  [k \in 1 .. Len(map) |->
     IF map[k].location = location
     THEN [map[k] EXCEPT !.redirects = Append(@, redirect)] ELSE map[k]]
\* A body of redirects.forEach that sets the empty list without asking has().
GroupOne_AlwaysSet(map, redirect) ==
  LET location == redirect.location
      m1 == MapSet(map, location, << >>)
  IN  MapPush(m1, location, redirect)
\* the body of redirects.forEach
GroupOne(map, redirect) ==
  LET location == redirect.location
      m1 == IF ~MapHas(map, location) THEN MapSet(map, location, << >>) ELSE map
  IN  MapPush(m1, location, redirect)
RECURSIVE GroupFrom(_, _, _)
GroupFrom(map, list, k) ==
  IF k > Len(list) THEN map
  ELSE CHOOSE r \in { GroupFrom(m, list, k + 1) : m \in { GroupOne(map, list[k]) } } : TRUE
GroupRedirects(list) == GroupFrom(<< >>, list, 1)

(***************************************************************************)
(* generateRedirectObjectsAsync: the key and the metadata of a group.      *)
(***************************************************************************)
\* A derivation that inserts the "/" whatever the location ends in.
LocationIndexHtml_AlwaysSlash(location) ==
  location \o << "/", "index.html" >>
LocationIndexHtml(location) ==
  IF EndsWith(location, "/")
  THEN location \o << "index.html" >>
  ELSE location \o << "/", "index.html" >>
SubPathOf(location) ==
  LET locationIndexHtml == LocationIndexHtml(location)
  IN  IF StartsWith(locationIndexHtml, "/")
      THEN Slice1(locationIndexHtml) ELSE locationIndexHtml
\* metadata[key] = value
SetKey(metadata, key, value) == (key :> value) @@ metadata
\* A body that numbers the keys with index itself, from 0.
MetadataOne_ZeroBased(metadata, redirect, index) ==
  LET i == index
      m1 == SetKey(metadata, "redirect-location-" \o ToString(i), redirect.redirect)
  IN  IF "pattern" \in DOMAIN redirect
      THEN SetKey(m1, "redirect-pattern-" \o ToString(i), redirect.pattern)
      ELSE m1
\* the body of locationRedirects.forEach((redirect, index) => ...)
MetadataOne(metadata, redirect, index) ==
  LET i == index + 1
      m1 == SetKey(metadata, "redirect-location-" \o ToString(i), redirect.redirect)
  IN  IF "pattern" \in DOMAIN redirect
      THEN SetKey(m1, "redirect-pattern-" \o ToString(i), redirect.pattern)
      ELSE m1
RECURSIVE MetadataFrom(_, _, _)
MetadataFrom(metadata, locationRedirects, index) ==
  IF index >= Len(locationRedirects) THEN metadata
  ELSE CHOOSE r \in
         { MetadataFrom(m, locationRedirects, index + 1) :
             m \in { MetadataOne(metadata, locationRedirects[index + 1], index) } } : TRUE
EmptyRecord == [k \in {} |-> ""]
MetadataOf(locationRedirects) == MetadataFrom(EmptyRecord, locationRedirects, 0)

(***************************************************************************)
(* The two remote writes and the outcome of an operation.                  *)
(***************************************************************************)
FullPath(prefix, subPath) == prefix \o << "/" >> \o subPath
Bucket == << "d", "o", "c", "s", "-", "b", "u", "c", "k", "e", "t" >>
\* A copy that leaves the metadata directive out (S3 then keeps the metadata).
CopyObjectCommand_NoDirective(prefix, subPath, metadata) ==
  [ command |-> "CopyObject",
    CopySource |-> Bucket \o << "/" >> \o FullPath(prefix, subPath),
    Key |-> FullPath(prefix, subPath),
    MetadataDirective |-> "COPY",
    ContentType |-> "text/html",
    Metadata |-> metadata ]
CopyObjectCommand(prefix, subPath, metadata) ==
  [ command |-> "CopyObject",
    CopySource |-> Bucket \o << "/" >> \o FullPath(prefix, subPath),
    Key |-> FullPath(prefix, subPath),
    MetadataDirective |-> "REPLACE",
    ContentType |-> "text/html",
    Metadata |-> metadata ]
\* A put that leaves the prefix out of the key.
PutObjectCommand_KeyWithoutPrefix(prefix, subPath, metadata) ==
  [ command |-> "PutObject",
    Key |-> subPath,
    Body |-> "<!doctype html><title>?</title>",
    ContentType |-> "text/html",
    Metadata |-> SetKey(metadata, "redirect-failure", "not-found") ]
PutObjectCommand(prefix, subPath, metadata) ==
  [ command |-> "PutObject",
    Key |-> FullPath(prefix, subPath),
    Body |-> "<!doctype html><title>?</title>",
    ContentType |-> "text/html",
    Metadata |-> SetKey(metadata, "redirect-failure", "not-found") ]
\* fs.access(path.join(buildPath, subPath), fs.constants.F_OK): the promise
\* resolves, or rejects with the error of the file system.
FsAccess(files, fails, subPath) ==
  IF subPath \in DOMAIN fails THEN [st |-> "rejected", error |-> fails[subPath]]
  ELSE IF subPath \in files THEN [st |-> "resolved"]
  ELSE [st |-> "rejected", error |-> "ENOENT"]
\* A probe without the onRejected handler: .then(() => true)
CheckS3ObjectExists_NoOnRejected(access) ==
  IF access.st = "resolved" THEN [st |-> "resolved", value |-> TRUE] ELSE access
\* checkS3ObjectExists: fs.access(...).then(() => true, () => false)
CheckS3ObjectExists(access) ==
  IF access.st = "resolved"
  THEN [st |-> "resolved", value |-> TRUE]
  ELSE [st |-> "resolved", value |-> FALSE]
\* createOrUpdateS3ObjectAsync: the branch on the answer of the probe
CreateOrUpdate_Swapped(exists, prefix, subPath, metadata) ==
  IF exists
  THEN [copied |-> FALSE, command |-> PutObjectCommand(prefix, subPath, metadata)]
  ELSE [copied |-> TRUE, command |-> CopyObjectCommand(prefix, subPath, metadata)]
\* A decision taken by asking the bucket whether the object is there.
CreateOrUpdate_AsksStore(exists, prefix, subPath, metadata) ==
  IF FullPath(prefix, subPath) \in DOMAIN s3
  THEN [copied |-> TRUE, command |-> CopyObjectCommand(prefix, subPath, metadata)]
  ELSE [copied |-> FALSE, command |-> PutObjectCommand(prefix, subPath, metadata)]
\* if (await checkS3ObjectExists(...)) { return copy... } else { return create... }
CreateOrUpdate(exists, prefix, subPath, metadata) ==
  IF exists
  THEN [copied |-> TRUE, command |-> CopyObjectCommand(prefix, subPath, metadata)]
  ELSE [copied |-> FALSE, command |-> PutObjectCommand(prefix, subPath, metadata)]

\* What client.send does: "ok", a "S3ServiceException", or another "Error".
SendResults == { "ok", "S3ServiceException", "Error" }
\* The bucket can carry out a copy only of an object that is there.
SourceKey(command) ==
  SubSeq(command.CopySource, Len(Bucket) + 2, Len(command.CopySource))
CanSucceed(bucket, command) ==
  command.command = "CopyObject" => SourceKey(command) \in DOMAIN bucket
\* The bucket after a successful command.
S3Apply(bucket, command) ==
  IF command.command = "CopyObject"
  THEN [bucket EXCEPT ![command.Key] =
          [ Body |-> bucket[SourceKey(command)].Body,
            ContentType |-> command.ContentType,
            Metadata |-> IF command.MetadataDirective = "REPLACE"
                         THEN command.Metadata
                         ELSE bucket[SourceKey(command)].Metadata ]]
  ELSE (command.Key :> [ Body |-> command.Body,
                         ContentType |-> command.ContentType,
                         Metadata |-> command.Metadata ]) @@ bucket
\* try { await client.send(command); return ... } catch (error) { ... }
\* The field op is the identity of the outcome object (its group number).
\* A catch that rethrows whatever it caught.
Outcome_Rethrow(op, copied, subPath, result) ==
  IF result = "ok"
  THEN [st |-> "resolved", value |-> [op |-> op, copied |-> copied, subPath |-> subPath]]
  ELSE [st |-> "rejected", error |-> result]
Outcome(op, copied, subPath, result) ==
  IF result = "ok"
  THEN [st |-> "resolved", value |-> [op |-> op, copied |-> copied, subPath |-> subPath]]
  ELSE IF result = "S3ServiceException"
  THEN [st |-> "resolved",
        value |-> [op |-> op, copied |-> copied, subPath |-> subPath, error |-> result]]
  ELSE [st |-> "rejected", error |-> result]

(***************************************************************************)
(* parallelGenerator.  Its state is the record                             *)
(*   [tasks, tasksAndNull, srcPos, ops, started, emitted, genPc, winner],  *)
(* and each operator below is a piece of its code, from state to state.    *)
(* A wrapped promise is [i, task]: task is the IteratorResult of the       *)
(* source, [done |-> TRUE] or [done |-> FALSE, value |-> g], g the group   *)
(* whose operation the promise task.value is.                              *)
(***************************************************************************)
Wrap(i, task) == [i |-> i, task |-> task]
\* A refill that writes to the first slot, whichever slot has won.
Place_FirstSlot(S, i) ==
  LET S1 == IF S.task.done THEN S
            ELSE [S EXCEPT !.ops[S.task.value] = [slot |-> 0] @@ @]
  IN  [S1 EXCEPT !.tasks = IF i < Length(@) THEN [@ EXCEPT ![0] = Wrap(0, S.task)]
                           ELSE Push(@, Wrap(i, S.task))]
\* tasks[i] = wrap(i, task), or tasks.push(wrap(i, task)) when i is the length;
\* the operation remembers its slot (history).
Place(S, i) ==
  LET S1 == IF S.task.done THEN S
            ELSE [S EXCEPT !.ops[S.task.value] = [slot |-> i] @@ @]
  IN  [S1 EXCEPT !.tasks = IF i < Length(@) THEN [@ EXCEPT ![i] = Wrap(i, S.task)]
                           ELSE Push(@, Wrap(i, S.task))]
\* wrap: resolve is called at once for a done task, and for a promise only
\* from its then(onFulfilled): a rejected task.value never resolves it.
\* (WrapResolved_OnlyValues: a wrap that never resolves for a done task.)
WrapResolved_OnlyValues(p, opState) ==
  IF p.task.done THEN FALSE ELSE opState[p.task.value].st = "resolved"
WrapResolved(p, opState) ==
  IF p.task.done THEN TRUE ELSE opState[p.task.value].st = "resolved"
\* the value wrap resolves with: [i, { done, value }]
Undefined == [undefined |-> TRUE]
WrapValue(p, opState) ==
  IF p.task.done
  THEN << p.i, [done |-> TRUE, value |-> Undefined] >>
  ELSE << p.i, [done |-> FALSE, value |-> opState[p.task.value].value] >>
Pending == << >>
\* Promise.race(list): the first promise of the list that is already
\* resolved wins; with none resolved the race stays pending.
Race_Last(list, opState) ==
  LET resolved == { k \in DOMAIN list : WrapResolved(list[k], opState) }
  IN  IF resolved = {} THEN Pending
      ELSE WrapValue(list[CHOOSE k \in resolved : \A j \in resolved : k >= j], opState)
Race(list, opState) ==
  LET resolved == { k \in DOMAIN list : WrapResolved(list[k], opState) }
  IN  IF resolved = {} THEN Pending
      ELSE WrapValue(list[CHOOSE k \in resolved : \A j \in resolved : k <= j], opState)

\* A source that yields its first group again and again.
SourceNext_Repeat(S, map) ==
  IF S.srcPos < Len(map)
  THEN LET g == 1
       IN  [S EXCEPT !.ops[g] = [ st |-> "probing",
                                  subPath |-> SubPathOf(map[g].location),
                                  metadata |-> MetadataOf(map[g].redirects),
                                  probes |-> 1,
                                  sends |-> 0 ],
                     !.started = Append(@, g),
                     !.task = [done |-> FALSE, value |-> g]]
  ELSE [S EXCEPT !.task = [done |-> TRUE]]
\* A source that starts the operations of all groups at its first next().
SourceNext_Eager(S, map) ==
  IF S.srcPos < Len(map)
  THEN LET g == S.srcPos + 1
       IN  [S EXCEPT !.srcPos = g,
                     !.ops = IF g = 1
                             THEN [h \in 1 .. Len(map) |->
                                     [ st |-> "probing",
                                       subPath |-> SubPathOf(map[h].location),
                                       metadata |-> MetadataOf(map[h].redirects),
                                       probes |-> 1,
                                       sends |-> 0 ]]
                             ELSE @,
                     !.started = IF g = 1 THEN [h \in 1 .. Len(map) |-> h] ELSE @,
                     !.task = [done |-> FALSE, value |-> g]]
  ELSE [S EXCEPT !.task = [done |-> TRUE]]
\* source.next(): the generator body up to its yield starts the operation of
\* the next group, which runs up to the await of its probe.
SourceNext(S, map) ==
  IF S.srcPos < Len(map)
  THEN LET g == S.srcPos + 1
           location == map[g].location
           locationRedirects == map[g].redirects
       IN  [S EXCEPT !.srcPos = g,
                     !.ops[g] = [ st |-> "probing",
                                  subPath |-> SubPathOf(location),
                                  metadata |-> MetadataOf(locationRedirects),
                                  probes |-> 1,
                                  sends |-> 0 ],
                     !.started = Append(@, g),
                     !.task = [done |-> FALSE, value |-> g]]
  ELSE [S EXCEPT !.task = [done |-> TRUE]]

\* for (let i = 0; i < max; i++) tasks.push(wrap(i, source.next()))
\* (x and y name the state after source.next() and after the push)
FillCond_OneMore(i, max) == i <= max
FillCond(i, max) == i < max
RECURSIVE Fill(_, _, _, _)
Fill(S, map, i, max) ==
  IF FillCond(i, max)
  THEN CHOOSE r \in { Fill(y, map, i + 1, max) :
                         y \in { Place(x, i) : x \in { SourceNext(S, map) } } } : TRUE
  ELSE S

\* await Promise.race(tasks), the head of the first loop
SteadyHead(S) == [S EXCEPT !.genPc = "race1", !.winner = Race(S.tasks, S.ops)]
\* filteredTasks = tasksAndNull.filter(...); while (filteredTasks.length > 0)
\*   await Promise.race(filteredTasks)
DrainCond_StopsEarly(filteredTasks) == Length(filteredTasks) > 1
DrainCond(filteredTasks) == Length(filteredTasks) > 0
DrainHead(S) ==
  LET filteredTasks == FilterNotNull(S.tasksAndNull)
  IN  IF DrainCond(filteredTasks)
      THEN [S EXCEPT !.genPc = "race2", !.winner = Race(filteredTasks, S.ops)]
      ELSE [S EXCEPT !.genPc = "ended", !.winner = Pending]
\* yield v.value
Yield(S, v, at) == [S EXCEPT !.emitted = Append(@, v.value), !.genPc = at, !.winner = Pending]
\* A body of the first loop that yields without refilling the slot.
SteadyBody_NoRefill(S, map) ==
  LET i == S.winner[1]
      v == S.winner[2]
  IN  IF v.done
      THEN DrainHead([S EXCEPT !.tasksAndNull = [S.tasks EXCEPT ![i] = Null],
                               !.tasks = EmptyArray])
      ELSE Yield(S, v, "yield1")
\* the body of the first loop, once the race has resolved with [i, v]
SteadyBody(S, map) ==
  LET i == S.winner[1]
      v == S.winner[2]
  IN  IF v.done
      THEN DrainHead([S EXCEPT !.tasksAndNull = [S.tasks EXCEPT ![i] = Null],
                               !.tasks = EmptyArray])
      ELSE CHOOSE r \in { Yield(y, v, "yield1") :
                             y \in { Place(x, i) : x \in { SourceNext(S, map) } } } : TRUE
\* the body of the second loop, once the race has resolved with [i, v]
DrainYields_Never(v) == FALSE
\* A second loop that yields whatever has won.
DrainYields_Always(v) == TRUE
DrainYields(v) == ~v.done
\* A body of the second loop that asks the source again and refills the slot.
DrainBody_Refills(S) ==
  LET i == S.winner[1]
      v == S.winner[2]
      S1 == [S EXCEPT !.tasksAndNull[i] = Wrap(i, [done |-> TRUE])]
  IN  IF DrainYields(v) THEN Yield(S1, v, "yield2") ELSE DrainHead(S1)
\* A body of the second loop that takes the winner's place in the filtered
\* list for its slot.
DrainBody_FilteredIndex(S) ==
  LET filteredTasks == FilterNotNull(S.tasksAndNull)
      i == CHOOSE k \in DOMAIN filteredTasks : filteredTasks[k].i = S.winner[1]
      v == S.winner[2]
      S1 == [S EXCEPT !.tasksAndNull[i] = Null]
  IN  IF DrainYields(v) THEN Yield(S1, v, "yield2") ELSE DrainHead(S1)
\* const [ i, v ] = ...; tasksAndNull[i] = null; if (!v.done) yield v.value;
\* filteredTasks = tasksAndNull.filter(...)
DrainBody(S) ==
  LET i == S.winner[1]
      v == S.winner[2]
      S1 == [S EXCEPT !.tasksAndNull[i] = Null]
  IN  IF DrainYields(v) THEN Yield(S1, v, "yield2") ELSE DrainHead(S1)

\* The promises the pending race was called with.
Racing(S) == IF S.genPc = "race1" THEN S.tasks
             ELSE IF S.genPc = "race2" THEN FilterNotNull(S.tasksAndNull)
             ELSE EmptyArray
\* An operation has settled: a pending race resolves if it was in it.
Settle(S) ==
  IF S.genPc \in {"race1", "race2"} /\ S.winner = Pending
  THEN [S EXCEPT !.winner = Race(Racing(S), S.ops)]
  ELSE S

GenState == [ tasks |-> tasks, tasksAndNull |-> tasksAndNull, srcPos |-> srcPos,
              ops |-> ops, started |-> started, emitted |-> emitted,
              genPc |-> genPc, winner |-> winner, task |-> [done |-> TRUE] ]
SetGen(S) ==
  /\ tasks' = S.tasks
  /\ tasksAndNull' = S.tasksAndNull
  /\ srcPos' = S.srcPos
  /\ ops' = S.ops
  /\ started' = S.started
  /\ emitted' = S.emitted
  /\ genPc' = S.genPc
  /\ winner' = S.winner

(***************************************************************************)
(* parseInt(text, 10): an optional sign and the decimal digits that        *)
(* follow it, whatever comes after them; NaN if no digit follows.          *)
(***************************************************************************)
DigitValue(c) == CHOOSE n \in 0 .. 9 : ToString(n) = c
IsDigit(c) == \E n \in 0 .. 9 : ToString(n) = c
RECURSIVE DecimalValue(_)
DecimalValue(digits) ==
  IF digits = << >> THEN 0
  ELSE 10 * DecimalValue(SubSeq(digits, 1, Len(digits) - 1))
         + DigitValue(digits[Len(digits)])
ParseInt(text) ==
  LET signed == Len(text) > 0 /\ text[1] \in { "-", "+" }
      unsigned == IF signed THEN Tail(text) ELSE text
      count == Cardinality({ k \in 1 .. Len(unsigned) :
                               \A j \in 1 .. k : IsDigit(unsigned[j]) })
      magnitude == DecimalValue(SubSeq(unsigned, 1, count))
  IN  IF count = 0 THEN [isNaN |-> TRUE]
      ELSE [isNaN |-> FALSE,
            value |-> IF signed /\ text[1] = "-" THEN 0 - magnitude ELSE magnitude]

(***************************************************************************)
(* Regular expressions (validation.ts).  A text is a sequence of           *)
(* characters; a pattern is a tree, and Ends(re, s, i) is the set of       *)
(* positions at which a match of re that begins at position i of s may     *)
(* end.  RegExp.prototype.test(s) asks for one match, from the start of s  *)
(* if the pattern begins with ^, to its end if the pattern ends with $.    *)
(***************************************************************************)
Class(set) == [op |-> "class", set |-> set]
Literal(text) == [op |-> "literal", text |-> text]
Concat(parts) == [op |-> "concat", parts |-> parts]
Between(of, min, max) == [op |-> "repeat", of |-> of, min |-> min, max |-> max]
OneOrMore(of) == [op |-> "repeat", of |-> of, min |-> 1]
ZeroOrMore(of) == [op |-> "repeat", of |-> of, min |-> 0]
RegExp(re, fromStart, toEnd) == [re |-> re, fromStart |-> fromStart, toEnd |-> toEnd]

RECURSIVE Ends(_, _, _)
RECURSIVE ConcatEnds(_, _, _, _)
RECURSIVE RepeatEnds(_, _, _, _)
Ends(re, s, i) ==
  CASE re.op = "class" ->
         IF i <= Len(s) /\ s[i] \in re.set THEN { i + 1 } ELSE {}
    [] re.op = "literal" ->
         IF i + Len(re.text) - 1 <= Len(s)
            /\ SubSeq(s, i, i + Len(re.text) - 1) = re.text
         THEN { i + Len(re.text) } ELSE {}
    [] re.op = "concat" -> ConcatEnds(re.parts, 1, s, { i })
    [] re.op = "repeat" -> RepeatEnds(re, s, { i }, 0)
\* the positions after parts[k], parts[k + 1], ... matched from one of `from`
ConcatEnds(parts, k, s, from) ==
  IF k > Len(parts) \/ from = {} THEN from
  ELSE ConcatEnds(parts, k + 1, s, UNION { Ends(parts[k], s, j) : j \in from })
\* `from` are the positions after n repetitions
RepeatEnds(re, s, from, n) ==
  (IF n >= re.min THEN from ELSE {})
  \cup (IF from = {} \/ ("max" \in DOMAIN re /\ n >= re.max) THEN {}
        ELSE RepeatEnds(re, s, UNION { Ends(re.of, s, j) : j \in from }, n + 1))
Test(regexp, s) ==
  \E i \in (IF regexp.fromStart THEN { 1 } ELSE 1 .. Len(s) + 1) :
    \E j \in Ends(regexp.re, s, i) : regexp.toEnd => j = Len(s) + 1

LowerCaseLetters ==
  { "a", "b", "c", "d", "e", "f", "g", "h", "i", "j", "k", "l", "m",
    "n", "o", "p", "q", "r", "s", "t", "u", "v", "w", "x", "y", "z" }
Digits == { "0", "1", "2", "3", "4", "5", "6", "7", "8", "9" }
\* [a-z0-9] and [a-z0-9.-]
LetterOrDigit == Class(LowerCaseLetters \cup Digits)
NameCharacter == Class(LowerCaseLetters \cup Digits \cup { ".", "-" })

(***************************************************************************)
(* validation.ts: isValidGeneralPurposeBucketName and isValidPrefix.       *)
(***************************************************************************)
\* /^[a-z0-9][a-z0-9.-]{1,61}[a-z0-9]$/
BucketShape ==
  RegExp(Concat(<< LetterOrDigit, Between(NameCharacter, 1, 61), LetterOrDigit >>),
         TRUE, TRUE)
\* /\.\./
AdjacentPeriods == RegExp(Literal(<< ".", "." >>), FALSE, FALSE)
\* /^\d+\.\d+\.\d+\.\d+$/
IpAddress ==
  RegExp(Concat(<< OneOrMore(Class(Digits)), Literal(<< "." >>),
                   OneOrMore(Class(Digits)), Literal(<< "." >>),
                   OneOrMore(Class(Digits)), Literal(<< "." >>),
                   OneOrMore(Class(Digits)) >>), TRUE, TRUE)
\* /^xn--/, /^sthree-/, /^amzn-s3-demo-/
ReservedPrefixes ==
  { << "x", "n", "-", "-" >>,
    << "s", "t", "h", "r", "e", "e", "-" >>,
    << "a", "m", "z", "n", "-", "s", "3", "-", "d", "e", "m", "o", "-" >> }
\* /-s3alias$/, /--ol-s3$/, /\.mrap$/, /--x-s3$/, /--table-s3$/
ReservedSuffixes ==
  { << "-", "s", "3", "a", "l", "i", "a", "s" >>,
    << "-", "-", "o", "l", "-", "s", "3" >>,
    << ".", "m", "r", "a", "p" >>,
    << "-", "-", "x", "-", "s", "3" >>,
    << "-", "-", "t", "a", "b", "l", "e", "-", "s", "3" >> }
\* A check that leaves the two end characters to the middle class.
IsValidGeneralPurposeBucketName_AnyEnds(bucket) ==
  ~ \/ ~Test(RegExp(Between(NameCharacter, 3, 63), TRUE, TRUE), bucket)
    \/ Test(AdjacentPeriods, bucket)
    \/ Test(IpAddress, bucket)
    \/ \E p \in ReservedPrefixes : Test(RegExp(Literal(p), TRUE, FALSE), bucket)
    \/ \E p \in ReservedSuffixes : Test(RegExp(Literal(p), FALSE, TRUE), bucket)
IsValidGeneralPurposeBucketName(bucket) ==
  ~ \/ ~Test(BucketShape, bucket)
    \/ Test(AdjacentPeriods, bucket)
    \/ Test(IpAddress, bucket)
    \/ \E p \in ReservedPrefixes : Test(RegExp(Literal(p), TRUE, FALSE), bucket)
    \/ \E p \in ReservedSuffixes : Test(RegExp(Literal(p), FALSE, TRUE), bucket)
\* /^[a-z0-9.-]+(\/[a-z0-9.-]+)*$/
PrefixShape ==
  RegExp(Concat(<< OneOrMore(NameCharacter),
                   ZeroOrMore(Concat(<< Literal(<< "/" >>),
                                        OneOrMore(NameCharacter) >>)) >>),
         TRUE, TRUE)
\* The pattern without its two anchors.
IsValidPrefix_Unanchored(prefix) ==
  Test(RegExp(PrefixShape.re, FALSE, FALSE), prefix)
IsValidPrefix(prefix) == Test(PrefixShape, prefix)

(***************************************************************************)
(* Values of JavaScript, tagged with their kind: what JSON.parse returns   *)
(* (null, numbers, strings, booleans, arrays, objects), and undefined.     *)
(***************************************************************************)
JsNull == [t |-> "null"]
JsUndefined == [t |-> "undefined"]
JsNumber(n) == [t |-> "number", n |-> n]
JsString(s) == [t |-> "string", s |-> s]
JsBoolean(b) == [t |-> "boolean", b |-> b]
JsArray(items) == [t |-> "array", items |-> items]
JsObject(props) == [t |-> "object", props |-> props]
\* typeof v
TypeOf(v) == IF v.t \in {"null", "array", "object"} THEN "object" ELSE v.t
\* name in v, for a v that is an object
HasProperty(name, v) ==
  CASE v.t = "object" -> name \in DOMAIN v.props
    [] v.t = "array" ->
         name \in { "length" } \cup { ToString(k - 1) : k \in 1 .. Len(v.items) }
    [] OTHER -> FALSE
\* v[name], for a name that is in v
Property(v, name) ==
  CASE v.t = "object" -> v.props[name]
    [] v.t = "array" ->
         IF name = "length" THEN JsNumber(Len(v.items))
         ELSE v.items[CHOOSE k \in 1 .. Len(v.items) : ToString(k - 1) = name]
\* Array.isArray(v)
IsArray(v) == v.t = "array"
\* A guard that does not look at the pattern.
IsRedirect_PatternUnchecked(v) ==
  /\ TypeOf(v) = "object" /\ v.t \notin {"null", "undefined"}
  /\ HasProperty("location", v) /\ TypeOf(Property(v, "location")) = "string"
  /\ HasProperty("redirect", v) /\ TypeOf(Property(v, "redirect")) = "string"
\* validation.ts: isRedirect
IsRedirect(v) ==
  /\ TypeOf(v) = "object" /\ v.t \notin {"null", "undefined"}
  /\ HasProperty("location", v) /\ TypeOf(Property(v, "location")) = "string"
  /\ HasProperty("redirect", v) /\ TypeOf(Property(v, "redirect")) = "string"
  /\ (~HasProperty("pattern", v) \/ TypeOf(Property(v, "pattern")) = "string")

(***************************************************************************)
(* io.ts.  An error is [name, message], the message a text; a promise or   *)
(* a call is modelled by its outcome.                                      *)
(***************************************************************************)
Error(message) == [name |-> "Error", message |-> message]
ResolvedWith(value) == [st |-> "resolved", value |-> value]
RejectedWith(error) == [st |-> "rejected", error |-> error]
\* fs.stat(p) and fs.access(p, fs.constants.R_OK) of the build path
FsStat(at) ==
  IF at.stat = "ENOENT" THEN RejectedWith(Error(<< "ENOENT" >>))
  ELSE ResolvedWith([isDirectory |-> at.stat = "directory"])
FsAccessReadable(at) ==
  IF at.readable THEN ResolvedWith(TRUE) ELSE RejectedWith(Error(<< "EACCES" >>))
\* A check that takes any path that exists for a readable directory.
IsReadableDirectory_AnyPath(at) == FsStat(at).st = "resolved"
\* isReadableDirectory
IsReadableDirectory(at) ==
  LET stat == FsStat(at)
      isDirectory == IF stat.st = "resolved" THEN stat.value.isDirectory ELSE FALSE
  IN  IF ~isDirectory THEN FALSE
      ELSE FsAccessReadable(at).st = "resolved"

\* A JSON text is [encodes |-> v], the text of the value v, or a text that
\* is no JSON; JSON.parse returns the value or throws a SyntaxError.
JsonText(v) == [encodes |-> v]
Malformed == [malformed |-> TRUE]
JsonParse(text) ==
  IF "encodes" \in DOMAIN text
  THEN [threw |-> FALSE, value |-> text.encodes]
  ELSE [threw |-> TRUE,
        error |-> [name |-> "SyntaxError", message |-> << "Unexpected token" >>]]
\* response.json(): a promise
ResponseJson(response) ==
  LET parsed == JsonParse(response.body)
  IN  IF parsed.threw THEN RejectedWith(parsed.error) ELSE ResolvedWith(parsed.value)
\* source.startsWith('https://')
IsHttps(source) == StartsWith(source, "https://")
\* A catch block that rethrows what it caught.
LoadJSONCatch_Rethrow(source, err) == RejectedWith(err)
\* loadJSON: the catch block
LoadJSONCatch(source, err) ==
  IF "message" \in DOMAIN err
  THEN RejectedWith(Error(<< "Unable to load JSON", " from \"" >> \o source
                           \o << "\": " >> \o err.message))
  ELSE RejectedWith(err)
\* loadJSON(source), where `world` is the outcome of fs.readFile(source), or
\* of fetch(source): the promise it returns.  The promise of response.json()
\* is returned from the try block without an await.
LoadJSON(source, world) ==
  IF IsHttps(source)
  THEN IF world.st = "rejected" THEN LoadJSONCatch(source, world.error)
       ELSE IF ~world.value.ok
       THEN LoadJSONCatch(source, Error(<< "Unable to fetch", " " >> \o source))
       ELSE ResponseJson(world.value)
  ELSE IF world.st = "rejected" THEN LoadJSONCatch(source, world.error)
       ELSE LET parsed == JsonParse(world.value)
            IN  IF parsed.threw THEN LoadJSONCatch(source, parsed.error)
                ELSE ResolvedWith(parsed.value)
\* the calls of fetch that loadJSON(source) makes
Fetches(source) == IF IsHttps(source) THEN << source >> ELSE << >>

(***************************************************************************)
(* main.ts: the five inputs, read and checked in the order of main().      *)
(* Each returns [threw |-> FALSE, value] or [threw |-> TRUE, error].       *)
(***************************************************************************)
Return(value) == [threw |-> FALSE, value |-> value]
Throw(error) == [threw |-> TRUE, error |-> error]
BuildPath == << "_site" >>
InputBuild(at) ==
  IF ~IsReadableDirectory(at)
  THEN Throw(Error(<< "Input build " >> \o BuildPath
                    \o << " is not a readable directory." >>))
  ELSE Return(BuildPath)
InputBucket(name) ==
  IF ~IsValidGeneralPurposeBucketName(name)
  THEN Throw(Error(<< "Invalid bucket name, got " >> \o name))
  ELSE Return(name)
InputPrefix(text) ==
  IF ~IsValidPrefix(text)
  THEN Throw(Error(<< "Invalid prefix, got " >> \o text))
  ELSE Return(text)
\* A check that also refuses a limit below 1.
InputParallel_PositiveOnly(text) ==
  LET parsed == ParseInt(text)
  IN  IF parsed.isNaN \/ parsed.value < 1
      THEN Throw(Error(<< "Invalid integer value for parallel, got " >> \o text))
      ELSE Return(parsed.value)
InputParallel(text) ==
  LET parsed == ParseInt(text)
  IN  IF parsed.isNaN
      THEN Throw(Error(<< "Invalid integer value for parallel, got " >> \o text))
      ELSE Return(parsed.value)
\* A redirect that passed isRedirect, as the record the rest of the code
\* reads (location, redirect and, if the object has one, pattern).
RedirectOf(v) ==
  [k \in DOMAIN v.props \cap { "location", "redirect", "pattern" } |-> v.props[k].s]
InputRedirects(source, world) ==
  LET loaded == LoadJSON(source, world)
  IN  IF loaded.st = "rejected" THEN Throw(loaded.error)
      ELSE IF ~(IsArray(loaded.value)
                /\ \A k \in 1 .. Len(loaded.value.items) :
                     IsRedirect(loaded.value.items[k]))
      THEN Throw(Error(<< "Invalid redirects data" >>))
      ELSE Return([k \in 1 .. Len(loaded.value.items) |->
                     RedirectOf(loaded.value.items[k])])
\* main(), up to the call of makeRedirectObjects: what it throws, or the
\* checked inputs; `fetched` are its calls of fetch.
MainInputs ==
  LET build == InputBuild(buildAt)
      bucketName == InputBucket(bucketInput)
      prefixText == InputPrefix(prefixInput)
      count == InputParallel(parallelInput)
      rules == InputRedirects(redirectsSource, sourceWorld)
  IN  IF build.threw THEN build @@ [fetched |-> << >>]
      ELSE IF bucketName.threw THEN bucketName @@ [fetched |-> << >>]
      ELSE IF prefixText.threw THEN prefixText @@ [fetched |-> << >>]
      ELSE IF count.threw THEN count @@ [fetched |-> << >>]
      ELSE IF rules.threw THEN rules @@ [fetched |-> Fetches(redirectsSource)]
      ELSE [threw |-> FALSE, parallel |-> count.value, redirects |-> rules.value,
            fetched |-> Fetches(redirectsSource)]
\* run(): catch (err) { core.setFailed(...) }: the argument of setFailed
RunCatch(err) ==
  IF "name" \in DOMAIN err THEN err
  ELSE << "String(", err, ")" >>

(***************************************************************************)
(* The inputs of a run, and the arguments the exported functions of        *)
(* validation.ts and io.ts are called with.                                *)
(***************************************************************************)
\* what fs.stat and fs.access find at the build path
ReadableDirectory == [stat |-> "directory", readable |-> TRUE]
BuildStates ==
  { ReadableDirectory,
    [stat |-> "directory", readable |-> FALSE],
    [stat |-> "file", readable |-> TRUE],
    [stat |-> "ENOENT", readable |-> FALSE] }
\* bucket names: those the tests of validation.ts accept and reject, and
\* names at the limits of each rule
LongestName == [k \in 1 .. 63 |-> "a"]
ValidBucketNames ==
  { << "t", "h", "e", "-", "q", "u", "i", "c", "k", "-", "b", "r", "o", "w", "n", "-", "f", "o", "x", "-", "j", "u", "m", "p", "s", "-", "o", "v", "e", "r", "-", "t", "h", "e", "-", "l", "a", "z", "y", "-", "d", "o", "g" >>,
    << "u", "s", "i", "n", "g", ".", "d", "o", "t", "s", ".", "a", "s", ".", "a", ".", "s", "e", "p", "a", "r", "a", "t", "o", "r" >>,
    << "o", "n", "e", "-", "1", ".", "t", "w", "o", "-", "2", ".", "t", "h", "r", "e", "e", "-", "3" >>,
    << "d", "o", "c", "s", "-", "b", "u", "c", "k", "e", "t" >>,
    << "a", "a", "a" >>,
    << "a", ".", "b" >>,
    << "1", ".", "2", ".", "3" >>,
    << "1", ".", "2", ".", "3", ".", "4", ".", "5" >>,
    << "1", ".", "2", ".", "3", ".", "a" >>,
    << "a", "x", "n", "-", "-", "b" >>,
    << "t", "h", "i", "n", "g", "-", "s", "3", "a", "l", "i", "a", "s", "x" >>,
    << "x", "m", "r", "a", "p" >> } \cup { LongestName }
InvalidBucketNames ==
  { << >>,
    << "a" >>,
    << "a", "a" >>,
    << "A", "A", "A" >>,
    << "H", "e", "l", "l", "o", " ", "W", "o", "r", "l", "d" >>,
    << "u", "r", "l", "%", "2", "0", "e", "n", "c", "o", "d", "e", "d" >>,
    << ".", "a", "a", "a" >>,
    << "a", "a", "a", "." >>,
    << "-", "a", "a", "a" >>,
    << "a", "a", "a", "-" >>,
    << "a", ".", ".", "b" >>,
    << "1", "9", "2", ".", "1", "6", "8", ".", "5", ".", "4" >>,
    << "x", "n", "-", "-", "m", "n", "c", "h", "e", "n", "-", "3", "y", "a", ".", "d", "e" >>,
    << "s", "t", "h", "r", "e", "e", "-", "p", "o" >>,
    << "a", "m", "z", "n", "-", "s", "3", "-", "d", "e", "m", "o", "-", "t", "h", "i", "n", "g" >>,
    << "t", "h", "i", "n", "g", "-", "s", "3", "a", "l", "i", "a", "s" >>,
    << "t", "h", "i", "n", "g", "-", "-", "o", "l", "-", "s", "3" >>,
    << "t", "h", "i", "n", "g", ".", "m", "r", "a", "p" >>,
    << "t", "h", "i", "n", "g", "-", "-", "x", "-", "s", "3" >>,
    << "t", "h", "i", "n", "g", "-", "-", "t", "a", "b", "l", "e", "-", "s", "3" >>,
    << "a", "_", "b" >> } \cup { LongestName \o << "a" >> }
BucketNames == ValidBucketNames \cup InvalidBucketNames
ValidPrefixes ==
  { << "d", "o", "c", "s" >>,
    << "d", "o", "c", "s", "/", "v", "5" >>,
    << "d", "o", "c", "s", "/", "v", "5", "/", "a", "p", "i" >>,
    << "m", "y", "-", "d", "o", "c", "s" >>,
    << "d", "o", "c", "s", ".", "o", "l", "d" >>,
    << "v", "1", ".", "2", ".", "3" >>,
    << "p", "r", "e", "f", "i", "x", "-", "1", "2", "3", "/", "s", "u", "b", "d", "i", "r", "-", "4", "5", "6" >>,
    << "p", "r", "-", "1" >>,
    << "a", "/", ".", "." >> }
InvalidPrefixes ==
  { << "D", "o", "c", "s" >>,
    << "D", "O", "C", "S" >>,
    << "d", "o", "c", "s", "/", "w", "i", "t", "h", " ", "s", "p", "a", "c", "e" >>,
    << "d", "o", "c", "s", "_", "u", "n", "d", "e", "r", "s", "c", "o", "r", "e" >>,
    << "d", "o", "c", "s", "@", "s", "p", "e", "c", "i", "a", "l" >>,
    << "d", "o", "c", "s", "#", "h", "a", "s", "h" >>,
    << "/", "d", "o", "c", "s" >>,
    << "d", "o", "c", "s", "/" >>,
    << "/", "d", "o", "c", "s", "/" >>,
    << "d", "o", "c", "s", "/", "/", "a", "p", "i" >>,
    << >>,
    << "/" >> }
Prefixes == ValidPrefixes \cup InvalidPrefixes
\* values isRedirect is asked about
ToJs(rule) == JsObject([k \in DOMAIN rule |-> JsString(rule[k])])
WithProperty(v, name, value) == JsObject((name :> value) @@ v.props)
Without(v, name) == JsObject([k \in DOMAIN v.props \ { name } |-> v.props[k]])
PlainRule == [location |-> LocA, redirect |-> "/x"]
PatternRule == [location |-> LocA, redirect |-> "/y", pattern |-> "^/a-old$"]
RedirectCandidates ==
  { ToJs(rule) : rule \in Rules }
  \cup { Without(ToJs(rule), name) :
           rule \in { PlainRule, PatternRule }, name \in { "location", "redirect" } }
  \cup { WithProperty(ToJs(rule), name, value) :
           rule \in { PlainRule, PatternRule },
           name \in { "location", "redirect", "pattern" },
           value \in { JsNumber(123), JsNull, JsUndefined, JsBoolean(TRUE),
                       JsArray(<< >>), JsObject(<< >>) } }
  \cup { WithProperty(ToJs(PlainRule), "comment", JsNumber(1)) }
  \cup { JsObject(<< >>), JsNull, JsUndefined, JsString("string"), JsNumber(123),
         JsBoolean(TRUE), JsArray(<< >>), JsArray(<< ToJs(PlainRule) >>) }
\* the redirects input and what is behind it
LocalSource == << "redirects.json" >>
HttpsSource == << "https://", "example.com/redirects.json" >>
HttpSource == << "http://", "example.com/redirects.json" >>
DocumentOf(list) == JsArray([k \in 1 .. Len(list) |-> ToJs(list[k])])
NoSuchFile ==
  RejectedWith([name |-> "Error", code |-> "ENOENT",
                message |-> << "ENOENT: no such file or directory" >>])
FetchFailed == RejectedWith([name |-> "TypeError", message |-> << "fetch failed" >>])
NotOk(status) == ResolvedWith([ok |-> FALSE, status |-> status])
Ok(text) == ResolvedWith([ok |-> TRUE, status |-> 200, body |-> text])
\* documents that are no list of redirects
InvalidDocuments ==
  { JsArray(<< ToJs(PlainRule), JsNull >>),
    JsArray(<< Without(ToJs(PlainRule), "redirect") >>),
    ToJs(PlainRule) }
Documents ==
  { DocumentOf(list) : list \in UNION { [1 .. n -> { PlainRule, PatternRule }] : n \in 0 .. 2 } }
  \cup InvalidDocuments \cup { JsString("hello"), JsNull }
Loads ==
  { [source |-> LocalSource, world |-> ResolvedWith(JsonText(d))] : d \in Documents }
  \cup { [source |-> s, world |-> w] :
           s \in { LocalSource, HttpSource }, w \in { NoSuchFile, ResolvedWith(Malformed) } }
  \cup { [source |-> HttpsSource, world |-> Ok(JsonText(d))] : d \in Documents }
  \cup { [source |-> HttpsSource, world |-> w] :
           w \in { FetchFailed, NotOk(404), NotOk(500), Ok(Malformed) } }
\* the redirects inputs of the runs: every rule list in a local file, and
\* one input for each way the load or the check of the document fails
RunLoads ==
  { [source |-> LocalSource, world |-> ResolvedWith(JsonText(DocumentOf(list)))] :
      list \in RuleLists }
  \cup { [source |-> LocalSource, world |-> ResolvedWith(JsonText(d))] : d \in InvalidDocuments }
  \cup { [source |-> LocalSource, world |-> NoSuchFile],
         [source |-> HttpsSource, world |-> NotOk(404)] }
\* the calls of the exported functions
NoCall == [fn |-> "none"]
Calls ==
  { [fn |-> "isReadableDirectory", at |-> at] : at \in BuildStates }
  \cup { [fn |-> "isValidGeneralPurposeBucketName", bucket |-> b] : b \in BucketNames }
  \cup { [fn |-> "isValidPrefix", prefix |-> p] : p \in Prefixes }
  \cup { [fn |-> "isRedirect", v |-> v] : v \in RedirectCandidates }
  \cup { [fn |-> "loadJSON", source |-> l.source, world |-> l.world] : l \in Loads }

(***************************************************************************)
(* The state before run() is called.                                       *)
(***************************************************************************)
InitialObject(subPath) ==
  [ Body |-> << "page of", subPath >>,
    ContentType |-> "binary/octet-stream",
    Metadata |-> ("redirect-location-9" :> "/stale") ]
InitialBucket(objects) ==
  LET keys == { FullPath(Prefix, subPath) : subPath \in objects }
  IN  [ key \in keys |->
          InitialObject(CHOOSE subPath \in objects : FullPath(Prefix, subPath) = key) ]

\* The inputs of the runs: besides the one bucket name and the one prefix
\* the runs use, a name and a prefix that are not valid.
RunBuckets == { Bucket, << "a", "a" >> }
RunPrefixes == { Prefix, Prefix \o << "/" >> }
Idle ==
  /\ redirects = << >>
  /\ parallel = 0
  /\ fetched = << >>
  /\ runPc = "start"
  /\ redirectsByLocation = << >>
  /\ srcPos = 0
  /\ ops = << >>
  /\ tasks = EmptyArray
  /\ tasksAndNull = EmptyArray
  /\ genPc = "none"
  /\ winner = Pending
  /\ emitted = << >>
  /\ processedCount = 0
  /\ errorCount = 0
  /\ finishedWith = << >>
  /\ setFailed = << >>
  /\ started = << >>
  /\ settled = << >>
Init ==
  /\ buildAt \in BuildStates
  /\ bucketInput \in RunBuckets
  /\ prefixInput \in RunPrefixes
  /\ parallelInput \in ParallelInputs
  /\ \E load \in RunLoads :
       /\ redirectsSource = load.source
       /\ sourceWorld = load.world
  /\ \E world \in Worlds :
       /\ buildFiles = IF buildAt.stat = "directory" THEN world.files ELSE {}
       /\ accessFails = IF buildAt.stat = "directory" THEN world.fails ELSE NoFails
       /\ s3 = InitialBucket(world.objects)
  /\ call = NoCall
  /\ returned = << >>
  /\ Idle

(***************************************************************************)
(* run() -> main() -> makeRedirectObjects(): the inputs are read and       *)
(* checked; if a check throws, run() catches the error and reports it;     *)
(* else the rules are grouped, the two generators are created, and the     *)
(* first next() of the for-await loop runs parallelGenerator through its   *)
(* fill loop to its first await.                                           *)
(***************************************************************************)
Main ==
  /\ runPc = "start"
  /\ call = NoCall
  /\ \E checked \in { MainInputs } :
       /\ fetched' = fetched \o checked.fetched
       /\ IF checked.threw
          THEN \* main throws, run catches and reports
               /\ setFailed' = Append(setFailed, RunCatch(checked.error))
               /\ runPc' = "failed"
               /\ UNCHANGED << redirects, parallel, redirectsByLocation, srcPos, ops,
                               tasks, tasksAndNull, genPc, winner, emitted, started >>
          ELSE \E map \in { GroupRedirects(checked.redirects) } :
                 \E S0 \in { [GenState EXCEPT
                                !.ops = [g \in 1 .. Len(map) |-> [st |-> "unstarted"]]] } :
                   /\ redirects' = checked.redirects
                   /\ parallel' = checked.parallel
                   /\ redirectsByLocation' = map
                   /\ \E S1 \in { Fill(S0, map, 0, checked.parallel) } :
                        \E S2 \in { SteadyHead(S1) } : SetGen(S2)
                   /\ runPc' = "making"
                   /\ UNCHANGED setFailed
  /\ UNCHANGED << env, parallelInput, buildFiles, accessFails, s3, processedCount,
                  errorCount, finishedWith, settled >>

(***************************************************************************)
(* createOrUpdateS3ObjectAsync resumes after the probe and sends the one   *)
(* command of its branch; were the probe to reject, the await would throw  *)
(* and the operation's promise would reject.                               *)
(***************************************************************************)
ProbeDone(g) ==
  /\ runPc = "making"
  /\ g \in DOMAIN ops
  /\ ops[g].st = "probing"
  /\ \E access \in { FsAccess(buildFiles, accessFails, ops[g].subPath) } :
       \E probe \in { CheckS3ObjectExists(access) } :
         IF probe.st = "rejected"
         THEN /\ \E S1 \in { [GenState EXCEPT
                                !.ops[g] = [ st |-> "rejected",
                                             error |-> probe.error,
                                             access |-> access ] @@ @] } :
                   \E S2 \in { Settle(S1) } : SetGen(S2)
              /\ settled' = Append(settled, g)
         ELSE /\ LET branch == CreateOrUpdate(probe.value, Prefix, ops[g].subPath,
                                              ops[g].metadata)
                 IN  ops' = [ops EXCEPT ![g] = [ st |-> "sending",
                                                 sends |-> ops[g].sends + 1,
                                                 access |-> access,
                                                 exists |-> probe.value,
                                                 copied |-> branch.copied,
                                                 command |-> branch.command ] @@ @]
              /\ UNCHANGED << srcPos, tasks, tasksAndNull, genPc, winner, emitted,
                              started, settled >>
  /\ UNCHANGED << env, fetched, redirects, parallelInput, parallel, buildFiles, accessFails, s3, runPc, redirectsByLocation,
                  processedCount, errorCount, finishedWith, setFailed >>

(***************************************************************************)
(* client.send settles: the bucket carries the command out or refuses it,  *)
(* or the send fails with an error that is no S3ServiceException; the      *)
(* operation's promise resolves with an outcome, or rejects.               *)
(***************************************************************************)
SendDone(g, result) ==
  /\ runPc = "making"
  /\ g \in DOMAIN ops
  /\ ops[g].st = "sending"
  /\ result = "ok" => CanSucceed(s3, ops[g].command)
  /\ s3' = IF result = "ok" THEN S3Apply(s3, ops[g].command) ELSE s3
  /\ LET o == Outcome(g, ops[g].copied, ops[g].subPath, result)
     IN  \E S1 \in { [GenState EXCEPT !.ops[g] = o @@ [result |-> result] @@ @] } :
           \E S2 \in { Settle(S1) } : SetGen(S2)
  /\ settled' = Append(settled, g)
  /\ UNCHANGED << env, fetched, redirects, parallelInput, parallel, buildFiles, accessFails, runPc, redirectsByLocation,
                  processedCount, errorCount, finishedWith, setFailed >>

(***************************************************************************)
(* parallelGenerator resumes from its await of Promise.race and runs to    *)
(* its next yield, its next await or its end.                              *)
(***************************************************************************)
Resume ==
  /\ runPc = "making"
  /\ genPc \in {"race1", "race2"}
  /\ winner # Pending
  /\ \E S1 \in { IF genPc = "race1"
                   THEN SteadyBody(GenState, redirectsByLocation)
                   ELSE DrainBody(GenState) } : SetGen(S1)
  /\ UNCHANGED << env, fetched, redirects, parallelInput, parallel, buildFiles, accessFails, s3, runPc, redirectsByLocation,
                  processedCount, errorCount, finishedWith, setFailed, settled >>

(***************************************************************************)
(* The for-await loop of makeRedirectObjects takes the yielded value,      *)
(* counts it and calls next(): parallelGenerator resumes from its yield    *)
(* and runs to its next await or its end.                                  *)
(***************************************************************************)
\* A test that takes every outcome for an error.
HasError_Always(taskResult) == TRUE
\* const { subPath, error, copied } = taskResult; if (error)
HasError(taskResult) == "error" \in DOMAIN taskResult
\* A counter that goes up by two.
Increment_ByTwo(count) == count + 2
\* processedCount++, errorCount++
Increment(count) == count + 1
Pull ==
  /\ runPc = "making"
  /\ genPc \in {"yield1", "yield2"}
  /\ LET taskResult == emitted[Len(emitted)]
     IN  /\ processedCount' = Increment(processedCount)
         /\ errorCount' = IF HasError(taskResult)
                          THEN Increment(errorCount) ELSE errorCount
  /\ \E S1 \in { IF genPc = "yield1" THEN SteadyHead(GenState)
                   ELSE DrainHead(GenState) } : SetGen(S1)
  /\ UNCHANGED << env, fetched, redirects, parallelInput, parallel, buildFiles, accessFails, s3, runPc, redirectsByLocation,
                  finishedWith, setFailed, settled >>

(***************************************************************************)
(* The for-await loop ends with the generator; makeRedirectObjects logs    *)
(* the error count and main() and run() return.                            *)
(***************************************************************************)
Finish ==
  /\ runPc = "making"
  /\ genPc = "ended"
  /\ finishedWith' = << errorCount >>
  /\ runPc' = "finished"
  /\ UNCHANGED << env, fetched, redirects, parallelInput, parallel, buildFiles, accessFails, s3, redirectsByLocation, srcPos,
                  ops, tasks, tasksAndNull, genPc, winner, emitted,
                  processedCount, errorCount, setFailed, started, settled >>

(***************************************************************************)
(* A rejected operation has no rejection handler (wrap attaches only an    *)
(* onFulfilled): the host may end the process on the unhandled rejection.  *)
(***************************************************************************)
UnhandledRejection ==
  /\ runPc = "making"
  /\ \E g \in DOMAIN ops : ops[g].st = "rejected"
  /\ runPc' = "crashed"
  /\ UNCHANGED << env, fetched, redirects, parallelInput, parallel, buildFiles, accessFails, s3, redirectsByLocation, srcPos,
                  ops, tasks, tasksAndNull, genPc, winner, emitted,
                  processedCount, errorCount, finishedWith, setFailed, started,
                  settled >>

Next ==
  \/ Main
  \/ \E g \in DOMAIN ops : ProbeDone(g)
  \/ \E g \in DOMAIN ops : \E result \in SendResults : SendDone(g, result)
  \/ Resume
  \/ Pull
  \/ Finish
  \/ UnhandledRejection

Spec == Init /\ [][Next]_vars

(***************************************************************************)
(* The same program under the scheduling the event loop gives it: while    *)
(* a continuation is ready or a probe or a send is outstanding, one of     *)
(* them eventually runs or settles.  The host need not end the process on  *)
(* an unhandled rejection.                                                 *)
(***************************************************************************)
Progress ==
  \/ Main
  \/ \E g \in DOMAIN ops : ProbeDone(g)
  \/ \E g \in DOMAIN ops : \E result \in SendResults : SendDone(g, result)
  \/ Resume
  \/ Pull
  \/ Finish
FairSpec == Spec /\ WF_vars(Progress)

(***************************************************************************)
(* The runs with a limit above the limits of Spec, on inputs that pass     *)
(* main's checks, with the build directory and the bucket diverged: with   *)
(* more slots than two, several slots are still live in the second loop    *)
(* of parallelGenerator.                                                   *)
(***************************************************************************)
WideInit ==
  /\ buildAt = ReadableDirectory
  /\ bucketInput = Bucket
  /\ prefixInput = Prefix
  /\ parallelInput = << ToString(MaxParallel + 1) >>
  /\ redirectsSource = LocalSource
  /\ \E list \in RuleLists : sourceWorld = ResolvedWith(JsonText(DocumentOf(list)))
  /\ buildFiles = {KeyB, KeyOther}
  /\ accessFails = NoFails
  /\ s3 = InitialBucket({KeyA, KeyOther})
  /\ call = NoCall
  /\ returned = << >>
  /\ Idle
WideSpec == WideInit /\ [][Next]_vars

(***************************************************************************)
(* The exported functions of validation.ts and io.ts, each called by       *)
(* itself with one argument.                                               *)
(***************************************************************************)
Returns(value) ==
  /\ returned = << >>
  /\ returned' = << value >>
  /\ UNCHANGED << buildAt, bucketInput, prefixInput, redirectsSource, sourceWorld, call,
                  redirects, parallelInput, parallel, buildFiles, accessFails, s3,
                  runPc, redirectsByLocation, srcPos, ops, tasks, tasksAndNull,
                  genPc, winner, emitted, processedCount, errorCount, finishedWith,
                  setFailed, started, settled >>
CallIsReadableDirectory ==
  /\ call.fn = "isReadableDirectory"
  /\ Returns(IsReadableDirectory(call.at))
  /\ UNCHANGED fetched
CallIsValidGeneralPurposeBucketName ==
  /\ call.fn = "isValidGeneralPurposeBucketName"
  /\ Returns(IsValidGeneralPurposeBucketName(call.bucket))
  /\ UNCHANGED fetched
CallIsValidPrefix ==
  /\ call.fn = "isValidPrefix"
  /\ Returns(IsValidPrefix(call.prefix))
  /\ UNCHANGED fetched
CallIsRedirect ==
  /\ call.fn = "isRedirect"
  /\ Returns(IsRedirect(call.v))
  /\ UNCHANGED fetched
CallLoadJSON ==
  /\ call.fn = "loadJSON"
  /\ Returns(LoadJSON(call.source, call.world))
  /\ fetched' = fetched \o Fetches(call.source)
CallInit ==
  /\ call \in Calls
  /\ returned = << >>
  /\ buildAt = ReadableDirectory
  /\ bucketInput = Bucket
  /\ prefixInput = Prefix
  /\ parallelInput = << "1" >>
  /\ redirectsSource = LocalSource
  /\ sourceWorld = NoSuchFile
  /\ buildFiles = {}
  /\ accessFails = NoFails
  /\ s3 = InitialBucket({})
  /\ Idle
CallNext ==
  \/ CallIsReadableDirectory
  \/ CallIsValidGeneralPurposeBucketName
  \/ CallIsValidPrefix
  \/ CallIsRedirect
  \/ CallLoadJSON
CallSpec == CallInit /\ [][CallNext]_vars

(***************************************************************************)
(* Definitions the properties share.                                       *)
(***************************************************************************)
Groups == DOMAIN ops
InFlight == { g \in Groups : ops[g].st \in {"probing", "sending"} }
Completed == { g \in Groups : ops[g].st \in {"resolved", "rejected"} }
Rejected == { g \in Groups : ops[g].st = "rejected" }
Count(seq, x) == Cardinality({ k \in 1 .. Len(seq) : seq[k] = x })
EmittedOps == [k \in 1 .. Len(emitted) |-> emitted[k].op]
Ended == genPc = "ended"

(***************************************************************************)
(* C1.  Concurrency bound: with a limit of at least 1, at every instant    *)
(* the number of operations started and not yet completed is at most the   *)
(* limit, and at most the number of operations not yet completed.          *)
(***************************************************************************)
C1_ConcurrencyBound ==
  parallel >= 1 =>
    /\ Cardinality(InFlight) <= parallel
    /\ Cardinality(InFlight) <= Cardinality(Groups \ Completed)
\* the limit is reached again in steady state, after a slot was refilled
C1_Witness ==
  /\ parallel = 2
  /\ Cardinality(InFlight) = 2
  /\ Len(emitted) = 1
  /\ srcPos = 3

(***************************************************************************)
(* C2.  Completeness: once the output of parallelGenerator has ended it    *)
(* holds exactly one outcome for every group, the outcome that group's     *)
(* operation settled with.                                                 *)
(***************************************************************************)
C2_Completeness ==
  (parallel >= 1 /\ Ended) =>
    /\ Len(emitted) = Len(redirectsByLocation)
    /\ \A g \in Groups :
         /\ Count(EmittedOps, g) = 1
         /\ \E k \in 1 .. Len(emitted) : emitted[k] = ops[g].value
\* three groups, emitted in another order than they were started
C2_Witness ==
  /\ Ended
  /\ Len(emitted) = 3
  /\ EmittedOps = << 2, 3, 1 >>
  /\ parallel = 2

(***************************************************************************)
(* C3.  Termination: with a limit of at least 1, if no operation rejects   *)
(* then the output of parallelGenerator eventually ends; and it has ended  *)
(* only when every slot is retired, no operation is in flight and the      *)
(* outcome of every started operation has been emitted.                    *)
(***************************************************************************)
AllRetired ==
  /\ tasks = EmptyArray
  /\ Length(tasksAndNull) = parallel
  /\ \A i \in DOMAIN tasksAndNull : tasksAndNull[i] = Null
C3_Termination ==
  /\ <>(Ended \/ Rejected # {} \/ runPc = "failed" \/ (runPc = "making" /\ parallel < 1))
  /\ [](Ended => /\ AllRetired
                 /\ InFlight = {}
                 /\ \A k \in 1 .. Len(started) :
                      \E j \in 1 .. Len(emitted) : emitted[j].op = started[k])
\* the output has ended after three operations ran two at a time
C3_Witness ==
  /\ Ended
  /\ parallel = 2
  /\ Len(started) = 3
  /\ Len(emitted) = 3
  /\ runPc = "making"

(***************************************************************************)
(* C4.  Every group's operation is started exactly once: never twice, and  *)
(* when the output has ended none is left unstarted.                       *)
(***************************************************************************)
C4_StartedOnce ==
  /\ \A g \in Groups : Count(started, g) = IF ops[g].st = "unstarted" THEN 0 ELSE 1
  /\ \A k \in 1 .. Len(started) : started[k] \in Groups
  /\ (parallel >= 1 /\ Ended) => \A g \in Groups : Count(started, g) = 1
\* a run that went through fill, steady state and drain
C4_Witness ==
  /\ Ended
  /\ Len(started) = 3
  /\ parallel = 2

(***************************************************************************)
(* C7.  Output order is completion order: an outcome is never emitted      *)
(* while an operation that completed earlier is still waiting to be        *)
(* emitted.                                                                *)
(***************************************************************************)
SettledAt(g) == CHOOSE k \in 1 .. Len(settled) : settled[k] = g
EmittedAt(g) == CHOOSE k \in 1 .. Len(emitted) : emitted[k].op = g
IsEmitted(g) == \E k \in 1 .. Len(emitted) : emitted[k].op = g
Resolved == { g \in Groups : ops[g].st = "resolved" }
EmittedBefore(a, b) == IsEmitted(a) /\ EmittedAt(a) < EmittedAt(b)
StoreFailed == { g \in Completed : ops[g].result = "S3ServiceException" }
C5_StoreErrorIsLocal ==
  \A g \in StoreFailed :
    /\ ops[g].st = "resolved"
    /\ ops[g].value = [ op |-> g, copied |-> ops[g].copied,
                        subPath |-> ops[g].subPath, error |-> "S3ServiceException" ]
    /\ ops[g].sends = 1
    /\ Ended =>
         \A h \in Groups :
           /\ Count(started, h) = 1
           /\ Count(EmittedOps, h) = 1
           /\ emitted[EmittedAt(h)] = ops[h].value
           /\ ("error" \in DOMAIN ops[h].value) <=> (h \in StoreFailed)
\* the first operation failed in the store, and two more were emitted after it
C5_Witness ==
  /\ Ended
  /\ Len(emitted) = 3
  /\ StoreFailed = { emitted[1].op }
  /\ parallel = 1

(***************************************************************************)
(* C6.  An error that is no S3ServiceException is global: once an          *)
(* operation has rejected with one and nothing is left to run, run() has   *)
(* reported the failure.                                                   *)
(***************************************************************************)
RejectedAndIdle ==
  /\ Rejected # {}
  /\ InFlight = {}
  /\ genPc \in {"race1", "race2"}
  /\ winner = Pending
C6_UnexpectedErrorIsGlobal ==
  (RejectedAndIdle \/ (Rejected # {} /\ runPc \in {"finished", "crashed"}))
    => Len(setFailed) = 1

(***************************************************************************)
(* C8.  No two operations in flight at the same time target the same       *)
(* storage key.                                                            *)
(***************************************************************************)
C8_DistinctKeys ==
  \A g, h \in InFlight : g # h => ops[g].subPath # ops[h].subPath
\* the groups of "/a" and "/a/" are in flight together, on one key
C8_SameKeyInFlight ==
  \E g, h \in InFlight :
    /\ g # h
    /\ ops[g].subPath = ops[h].subPath
    /\ ops[g].st = "sending"
    /\ ops[h].st = "sending"

(***************************************************************************)
(* C9.  Each invocation of createOrUpdateS3ObjectAsync probes once and     *)
(* then sends exactly one command: a copy with REPLACE and copied = TRUE   *)
(* if the probe found the file, a put and copied = FALSE if not; on        *)
(* success and on a store error alike.                                     *)
(***************************************************************************)
C9_OneWritePerInvocation ==
  \A g \in Groups :
    /\ ops[g].st = "probing" => ops[g].probes = 1 /\ ops[g].sends = 0
    /\ ops[g].st \in {"sending", "resolved", "rejected"} =>
         /\ ops[g].probes = 1
         /\ ops[g].sends = 1
         /\ ops[g].exists = (ops[g].subPath \in buildFiles)
         /\ ops[g].copied = ops[g].exists
         /\ ops[g].command.command = IF ops[g].exists THEN "CopyObject" ELSE "PutObject"
         /\ ops[g].exists => ops[g].command.MetadataDirective = "REPLACE"
         /\ ops[g].command.Key = FullPath(Prefix, ops[g].subPath)
    /\ ops[g].st = "resolved" => ops[g].value.copied = ops[g].copied
\* a copy and a put that both ended in a store error
C9_Witness ==
  \E g, h \in StoreFailed :
    /\ ops[g].command.command = "CopyObject" /\ ops[g].value.copied
    /\ ops[h].command.command = "PutObject" /\ ~ops[h].value.copied

(***************************************************************************)
(* C10.  Update path: after a run that finished without an error, the      *)
(* object of every group whose operation took the copy branch has exactly  *)
(* that group's metadata document as its metadata, the content type        *)
(* text/html, and the body it had before the run.                          *)
(***************************************************************************)
ObjectOf(g) == s3[FullPath(Prefix, ops[g].subPath)]
C10_UpdatePath ==
  (runPc = "finished" /\ errorCount = 0) =>
    \A g \in Groups :
      ops[g].copied =>
        /\ ObjectOf(g).Metadata = ops[g].metadata
        /\ ObjectOf(g).ContentType = "text/html"
        /\ ObjectOf(g).Body = InitialObject(ops[g].subPath).Body
\* a run finished without an error after two groups updated the same object
C10_TwoUpdatesOfOneObject ==
  /\ runPc = "finished"
  /\ errorCount = 0
  /\ \E g, h \in Groups :
       /\ g # h
       /\ ops[g].copied /\ ops[h].copied
       /\ ops[g].subPath = ops[h].subPath

(***************************************************************************)
(* C11.  Create path: after a run that finished without an error, the      *)
(* object of every group whose operation took the put branch exists, its   *)
(* body is the placeholder document and its metadata is that group's       *)
(* metadata document plus redirect-failure = not-found.                    *)
(***************************************************************************)
C11_CreatePath ==
  (runPc = "finished" /\ errorCount = 0) =>
    \A g \in Groups :
      ~ops[g].copied =>
        /\ FullPath(Prefix, ops[g].subPath) \in DOMAIN s3
        /\ ObjectOf(g).Body = "<!doctype html><title>?</title>"
        /\ ObjectOf(g).Metadata =
             ("redirect-failure" :> "not-found") @@ ops[g].metadata
\* a run finished without an error after two groups created the same object
C11_TwoCreationsOfOneObject ==
  /\ runPc = "finished"
  /\ errorCount = 0
  /\ \E g, h \in Groups :
       /\ g # h
       /\ ~ops[g].copied /\ ~ops[h].copied
       /\ ops[g].subPath = ops[h].subPath

(***************************************************************************)
(* C12.  Frame: no step of a run adds, removes or changes an object whose  *)
(* key is not prefix/key for the key of a location of the input rules.     *)
(***************************************************************************)
GroupKeys ==
  { FullPath(Prefix, SubPathOf(redirects[k].location)) : k \in 1 .. Len(redirects) }
C12_Frame ==
  [][\A key \in DOMAIN s3 \cup DOMAIN s3' :
       key \notin GroupKeys =>
         /\ key \in DOMAIN s3
         /\ key \in DOMAIN s3'
         /\ s3'[key] = s3[key]]_vars
\* a run created one object and updated another, and other.html and the
\* object of no rule are as they were
C12_Witness ==
  /\ runPc = "finished"
  /\ \E g, h \in Groups :
       /\ ops[g].result = "ok" /\ ops[g].copied
       /\ ops[h].result = "ok" /\ ~ops[h].copied
  /\ FullPath(Prefix, KeyOther) \notin GroupKeys
  /\ s3[FullPath(Prefix, KeyOther)] = InitialObject(KeyOther)

(***************************************************************************)
(* C13.  Grouping is total and stable: the groups are the distinct         *)
(* locations of the input in the order each was first seen, and are        *)
(* started in that order; the rules of a group are the input rules of its  *)
(* location, in input order; so every rule is in exactly one group.        *)
(***************************************************************************)
Grouped == runPc \in {"making", "finished", "crashed"}
InputLocations == { redirects[k].location : k \in 1 .. Len(redirects) }
FirstSeen(location) ==
  CHOOSE k \in 1 .. Len(redirects) :
    /\ redirects[k].location = location
    /\ \A j \in 1 .. k - 1 : redirects[j].location # location
RulesOf(location) == SelectSeq(redirects, LAMBDA r : r.location = location)
C13_GroupingStable ==
  Grouped =>
    /\ { redirectsByLocation[g].location : g \in 1 .. Len(redirectsByLocation) }
         = InputLocations
    /\ \A g, h \in 1 .. Len(redirectsByLocation) :
         g < h => /\ redirectsByLocation[g].location # redirectsByLocation[h].location
                  /\ FirstSeen(redirectsByLocation[g].location)
                       < FirstSeen(redirectsByLocation[h].location)
    /\ \A g \in 1 .. Len(redirectsByLocation) :
         redirectsByLocation[g].redirects = RulesOf(redirectsByLocation[g].location)
    /\ \A k \in 1 .. Len(started) : started[k] = k
    /\ \A k \in 1 .. Len(redirects) :
         Cardinality({ << g, j >> \in (1 .. Len(redirectsByLocation)) \X (1 .. Len(redirects)) :
                        /\ j <= Len(redirectsByLocation[g].redirects)
                        /\ redirectsByLocation[g].redirects[j] = redirects[k] })
           = Count(redirects, redirects[k])
\* the rules of "/a" are the first and the third of the input, "b" the second
C13_Witness ==
  /\ Grouped
  /\ Len(redirects) = 3
  /\ redirects[1].location = LocA
  /\ redirects[2].location = LocB
  /\ redirects[3].location = LocA
  /\ redirects[1] # redirects[3]
  /\ Len(redirectsByLocation) = 2
  /\ redirectsByLocation[1].redirects = << redirects[1], redirects[3] >>
  /\ redirectsByLocation[2].redirects = << redirects[2] >>

(***************************************************************************)
(* C14.  Metadata construction: the metadata document of a group of k      *)
(* rules has the key redirect-location-i for each i in 1 .. k, with the    *)
(* i-th rule's redirect, the key redirect-pattern-i exactly for the rules  *)
(* that have a pattern, with that pattern, and no other key; i counts      *)
(* within the group.  The copy command carries this document.              *)
(***************************************************************************)
LocationKey(i) == "redirect-location-" \o ToString(i)
PatternKey(i) == "redirect-pattern-" \o ToString(i)
C14_MetadataDocument ==
  \A g \in Groups :
    ops[g].st # "unstarted" =>
      LET locationRedirects == redirectsByLocation[g].redirects
          k == Len(locationRedirects)
          withPattern == { i \in 1 .. k : "pattern" \in DOMAIN locationRedirects[i] }
      IN  /\ DOMAIN ops[g].metadata =
               { LocationKey(i) : i \in 1 .. k } \cup { PatternKey(i) : i \in withPattern }
          /\ \A i \in 1 .. k :
               ops[g].metadata[LocationKey(i)] = locationRedirects[i].redirect
          /\ \A i \in withPattern :
               ops[g].metadata[PatternKey(i)] = locationRedirects[i].pattern
          /\ (ops[g].st \in {"sending", "resolved", "rejected"} /\ ops[g].copied)
               => ops[g].command.Metadata = ops[g].metadata
\* the second group has two rules, the second of them with a pattern
C14_Witness ==
  /\ Len(redirectsByLocation) = 2
  /\ redirectsByLocation[1].location = LocB
  /\ ops[2].st = "sending"
  /\ ops[2].metadata = ( "redirect-location-1" :> "/x" @@
                         "redirect-location-2" :> "/y" @@
                         "redirect-pattern-2" :> "^/a-old$" )

(***************************************************************************)
(* C15.  Path derivation: the key of a location is the location followed   *)
(* by index.html, with "/" put between them unless the location ends in    *)
(* "/", and without its first character if that is "/"; so "/a" and "/a/"  *)
(* give a/index.html and "b" gives b/index.html.  The command's key is     *)
(* the prefix, "/" and this key.                                           *)
(***************************************************************************)
LocationOf(g) == redirectsByLocation[g].location
C15_PathDerivation ==
  \A g \in Groups :
    ops[g].st # "unstarted" =>
      LET location == LocationOf(g)
          withSlash == IF EndsWith(location, "/") THEN location
                       ELSE location \o << "/" >>
          full == withSlash \o << "index.html" >>
      IN  /\ ops[g].subPath = IF StartsWith(full, "/")
                              THEN SubSeq(full, 2, Len(full)) ELSE full
          /\ location \in { << "/", "a" >>, << "/", "a", "/" >> }
               => ops[g].subPath = << "a", "/", "index.html" >>
          /\ location = << "b" >> => ops[g].subPath = << "b", "/", "index.html" >>
          /\ ops[g].st \in {"sending", "resolved", "rejected"}
               => ops[g].command.Key = << "p", "r", "-", "1", "/" >> \o ops[g].subPath
\* commands for the locations "/a", "/a/" and "b" are being sent
C15_Witness ==
  \E f, g, h \in Groups :
    /\ LocationOf(f) = LocA /\ ops[f].st = "resolved"
    /\ LocationOf(g) = LocASlash /\ ops[g].st = "sending"
    /\ LocationOf(h) = LocB /\ ops[h].st = "sending"
    /\ ops[g].command.Key = << "p", "r", "-", "1", "/" >> \o << "a", "/", "index.html" >>
    /\ ops[h].command.Key = << "p", "r", "-", "1", "/" >> \o << "b", "/", "index.html" >>

(***************************************************************************)
(* C16.  Aggregation: the loop of makeRedirectObjects has counted every    *)
(* outcome it has taken once, and its error count is the number of those   *)
(* that carry an error; when the run has finished, every group was         *)
(* emitted once, the processed count is the number of groups and the       *)
(* reported error count is the number of operations that ended in a store  *)
(* error, whatever the order of completion.                                *)
(***************************************************************************)
Taken == IF genPc \in {"yield1", "yield2"} THEN Len(emitted) - 1 ELSE Len(emitted)
Unexpected == { g \in Completed : ops[g].result = "Error" }
C17_StoreErrorsDoNotFail ==
  /\ (StoreFailed # {}) ~> (runPc = "finished" \/ Unexpected # {})
  /\ [](runPc = "finished" => /\ setFailed = << >>
                               /\ finishedWith = << errorCount >>
                               /\ errorCount = Cardinality(StoreFailed))
  /\ [](setFailed # << >> => /\ runPc = "failed"
                              /\ MainInputs.threw
                              /\ StoreFailed = {})
\* every operation of the run ended in a store error, and the run finished
C17_Witness ==
  /\ runPc = "finished"
  /\ Len(redirectsByLocation) = 3
  /\ StoreFailed = Groups
  /\ finishedWith = << 3 >>
  /\ setFailed = << >>

(***************************************************************************)
(* C18.  Empty source: with a limit of at least 1 and no rule,             *)
(* parallelGenerator starts no operation and emits no outcome, its output  *)
(* ends, and makeRedirectObjects reports 0 errors.                         *)
(***************************************************************************)
EmptyRun == redirects = << >> /\ runPc = "making" /\ parallel >= 1
C18_EmptySource ==
  /\ EmptyRun ~> (Ended /\ runPc = "finished" /\ finishedWith = << 0 >>)
  /\ []((redirects = << >> /\ parallel >= 1) =>
          /\ started = << >>
          /\ emitted = << >>
          /\ ops = << >>
          /\ processedCount = 0)
\* the run of no rule with two slots has finished
C18_Witness ==
  /\ redirects = << >>
  /\ parallel = 2
  /\ Ended
  /\ runPc = "finished"
  /\ finishedWith = << 0 >>
  /\ Length(tasksAndNull) = 2

(***************************************************************************)
(* C19.  Limit larger than the work: when the limit exceeds the number K   *)
(* of groups, exactly K operations are started, in the first K slots; the  *)
(* other slots hold the marker of the exhausted source from the fill on    *)
(* and never an operation; and when the output has ended each of the K     *)
(* outcomes has been emitted once.                                         *)
(***************************************************************************)
C19_LimitAboveWork ==
  (Grouped /\ parallel > Len(redirectsByLocation)) =>
    LET K == Len(redirectsByLocation)
    IN  /\ Len(started) = K
        /\ \A g \in Groups : ops[g].st # "unstarted" /\ ops[g].slot = g - 1
        /\ \A i \in DOMAIN tasks : i >= K => tasks[i].task.done
        /\ \A i \in DOMAIN tasksAndNull :
             i >= K => (tasksAndNull[i] = Null \/ tasksAndNull[i].task.done)
        /\ Length(tasks) \in {0, parallel}
        /\ Ended => /\ Len(emitted) = K
                     /\ \A g \in Groups : Count(EmittedOps, g) = 1
\* one group and two slots: the output has ended with the one outcome
C19_Witness ==
  /\ parallel = 2
  /\ Len(redirectsByLocation) = 1
  /\ Ended
  /\ EmittedOps = << 1 >>
  /\ started = << 1 >>

(***************************************************************************)
(* C20.  Idempotent metadata replace: carrying out the copy command of an  *)
(* operation twice leaves the bucket as carrying it out once does; the     *)
(* object then has exactly the command's metadata (no key from before)     *)
(* and the body it had.  So when two operations of a run have updated the  *)
(* same key with the same document, the object has that document and the   *)
(* body it had before the run.                                             *)
(***************************************************************************)
C20_IdempotentReplace ==
  /\ \A g \in Groups :
       (/\ ops[g].st = "sending"
        /\ ops[g].copied
        /\ CanSucceed(s3, ops[g].command)) =>
         LET command == ops[g].command
             once == S3Apply(s3, command)
             twice == S3Apply(once, command)
         IN  /\ twice = once
             /\ once[command.Key].Metadata = ops[g].metadata
             /\ once[command.Key].Body = s3[command.Key].Body
  /\ \A g, h \in Groups :
       (/\ g # h
        /\ ops[g].st = "resolved" /\ ops[g].result = "ok" /\ ops[g].copied
        /\ ops[h].st = "resolved" /\ ops[h].result = "ok" /\ ops[h].copied
        /\ ops[g].subPath = ops[h].subPath
        /\ ops[g].metadata = ops[h].metadata) =>
         /\ ObjectOf(g).Metadata = ops[g].metadata
         /\ ObjectOf(g).Body = InitialObject(ops[g].subPath).Body
\* the update of a/index.html with the same document was carried out twice
C20_Witness ==
  \E g, h \in Groups :
    /\ g # h
    /\ ops[g].st = "resolved" /\ ops[g].result = "ok" /\ ops[g].copied
    /\ ops[h].st = "resolved" /\ ops[h].result = "ok" /\ ops[h].copied
    /\ ops[g].subPath = ops[h].subPath
    /\ ops[g].metadata = ops[h].metadata
    /\ ObjectOf(g).Metadata = ( "redirect-location-1" :> "/x" )

(***************************************************************************)
(* C21.  The existence oracle fails open: a probe never raises; it answers *)
(* "exists" exactly when the local access check succeeds, and when the     *)
(* check fails, whatever the error (missing file, permission, I/O), the    *)
(* answer is "does not exist" and the operation takes the create path.     *)
(***************************************************************************)
Probed == { g \in Groups : ops[g].st \notin {"unstarted", "probing"} }
C21_OracleFailsOpen ==
  \A g \in Probed :
    /\ "exists" \in DOMAIN ops[g]
    /\ ops[g].sends = 1
    /\ ops[g].exists = (ops[g].access.st = "resolved")
    /\ ops[g].access = FsAccess(buildFiles, accessFails, ops[g].subPath)
    /\ ops[g].access.st = "rejected" =>
         /\ ~ops[g].copied
         /\ ops[g].command = PutObjectCommand(Prefix, ops[g].subPath, ops[g].metadata)
    /\ ops[g].st = "rejected" => ops[g].error \in SendResults
\* One run in which a probe failed on a permission or I/O error and the
\* operation created its object, and another probe succeeded and copied.
C21_Witness ==
  \E g, h \in Probed :
    /\ ops[g].access.st = "rejected"
    /\ ops[g].access.error \in {"EACCES", "EIO"}
    /\ ops[g].st = "resolved"
    /\ ~ops[g].copied
    /\ ops[g].result = "ok"
    /\ ops[h].access.st = "resolved"
    /\ ops[h].exists
    /\ ops[h].copied

(***************************************************************************)
(* What the specification says of the inputs, in its own terms (texts      *)
(* taken apart at their separators, values by their kind).                 *)
(***************************************************************************)
HasPrefix(text, part) == Len(text) >= Len(part) /\ SubSeq(text, 1, Len(part)) = part
HasSuffix(text, part) ==
  Len(text) >= Len(part) /\ SubSeq(text, Len(text) - Len(part) + 1, Len(text)) = part
Contains(text, part) ==
  \E i \in 1 .. Len(text) - Len(part) + 1 : SubSeq(text, i, i + Len(part) - 1) = part
\* the pieces of a text between its separators
Separators(text, sep) == { k \in 1 .. Len(text) : text[k] = sep }
PieceAt(text, sep, a) ==
  LET later == { k \in Separators(text, sep) : k >= a }
      end == IF later = {} THEN Len(text) + 1
             ELSE CHOOSE k \in later : \A m \in later : k <= m
  IN  SubSeq(text, a, end - 1)
Pieces(text, sep) ==
  { PieceAt(text, sep, a) : a \in { 1 } \cup { k + 1 : k \in Separators(text, sep) } }
MadeOf(text, characters) == \A k \in 1 .. Len(text) : text[k] \in characters
NameCharacters == LowerCaseLetters \cup Digits \cup { ".", "-" }
DescribedPrefix(text) ==
  \A piece \in Pieces(text, "/") : Len(piece) >= 1 /\ MadeOf(piece, NameCharacters)
DescribedBucketName(name) ==
  /\ Len(name) >= 3 /\ Len(name) <= 63
  /\ MadeOf(name, NameCharacters)
  /\ name[1] \in LowerCaseLetters \cup Digits
  /\ name[Len(name)] \in LowerCaseLetters \cup Digits
  /\ ~\E k \in 1 .. Len(name) - 1 : name[k] = "." /\ name[k + 1] = "."
  /\ ~ /\ Cardinality(Separators(name, ".")) = 3
       /\ \A piece \in Pieces(name, ".") : Len(piece) >= 1 /\ MadeOf(piece, Digits)
  /\ ~\E part \in ReservedPrefixes : HasPrefix(name, part)
  /\ ~\E part \in ReservedSuffixes : HasSuffix(name, part)
DescribedRedirect(v) ==
  /\ v.t = "object"
  /\ "location" \in DOMAIN v.props /\ v.props["location"].t = "string"
  /\ "redirect" \in DOMAIN v.props /\ v.props["redirect"].t = "string"
  /\ "pattern" \in DOMAIN v.props => v.props["pattern"].t = "string"
\* the document behind the redirects input, if the load of it succeeds
Loadable(source, world) ==
  /\ world.st = "resolved"
  /\ IF HasPrefix(source, << "https://" >>)
     THEN world.value.ok /\ "encodes" \in DOMAIN world.value.body
     ELSE "encodes" \in DOMAIN world.value
DocumentAt(source, world) ==
  IF HasPrefix(source, << "https://" >>)
  THEN world.value.body.encodes ELSE world.value.encodes

(***************************************************************************)
(* C22.  Validation gate: makeRedirectObjects is invoked (and so an        *)
(* operation can start) only if the build path is a readable directory,    *)
(* the bucket name and the prefix are valid, parallel is a number, and     *)
(* the redirects document is an array of valid redirects; if one of the    *)
(* checks fails, run() calls setFailed and no operation is started.        *)
(***************************************************************************)
DescribedNumber(text) ==
  \E k \in 1 .. Len(text) :
    /\ text[k] \in Digits
    /\ \A j \in 1 .. k - 1 : j = 1 /\ text[j] \in { "-", "+" }
Invoked == runPc \in {"making", "finished", "crashed"}
InputsPass ==
  /\ buildAt.stat = "directory" /\ buildAt.readable
  /\ DescribedBucketName(bucketInput)
  /\ DescribedPrefix(prefixInput)
  /\ DescribedNumber(parallelInput)
  /\ Loadable(redirectsSource, sourceWorld)
  /\ LET document == DocumentAt(redirectsSource, sourceWorld)
     IN  /\ document.t = "array"
         /\ \A k \in 1 .. Len(document.items) : DescribedRedirect(document.items[k])
C22_ValidationGate ==
  /\ Invoked => InputsPass
  /\ (ops # << >> \/ started # << >> \/ redirectsByLocation # << >>) => InputsPass
  /\ (runPc # "start" /\ ~InputsPass) =>
       /\ runPc = "failed"
       /\ Len(setFailed) = 1
       /\ ops = << >>
       /\ started = << >>
       /\ srcPos = 0
\* The first four inputs pass and the document has an entry that is no
\* redirect: the run has failed on the last check.
C22_Witness ==
  /\ runPc = "failed"
  /\ buildAt = ReadableDirectory
  /\ bucketInput = Bucket
  /\ prefixInput = Prefix
  /\ parallelInput = << "2" >>
  /\ sourceWorld = ResolvedWith(JsonText(JsArray(<< ToJs(PlainRule), JsNull >>)))
  /\ setFailed = << Error(<< "Invalid redirects data" >>) >>
  /\ ops = << >>

(***************************************************************************)
(* C23.  loadJSON: a local source whose file is missing or is no JSON,     *)
(* and an https:// source whose response is not OK or whose fetch fails,   *)
(* make it reject with an Error whose message starts with "Unable to load  *)
(* JSON" and contains the source (and "Unable to fetch" for a response     *)
(* that is not OK); on success it returns the parsed value; and it calls   *)
(* fetch only for a source that starts with "https://".                    *)
(***************************************************************************)
LoadError(outcome, source) ==
  /\ outcome.st = "rejected"
  /\ outcome.error.name = "Error"
  /\ HasPrefix(outcome.error.message, << "Unable to load JSON" >>)
  /\ Contains(outcome.error.message, source)
C23_LoadJSONContract ==
  (call.fn = "loadJSON" /\ returned # << >>) =>
    LET outcome == returned[1]
        source == call.source
        world == call.world
        https == HasPrefix(source, << "https://" >>)
    IN  /\ (~https /\ world.st = "rejected") => LoadError(outcome, source)
        /\ (~https /\ world.st = "resolved" /\ world.value = Malformed)
             => LoadError(outcome, source)
        /\ (https /\ world.st = "rejected") => LoadError(outcome, source)
        /\ (https /\ world.st = "resolved" /\ ~world.value.ok)
             => /\ LoadError(outcome, source)
                /\ Contains(outcome.error.message, << "Unable to fetch" >>)
        /\ Loadable(source, world)
             => outcome = [st |-> "resolved", value |-> DocumentAt(source, world)]
        /\ fetched = (IF https THEN << source >> ELSE << >>)
        /\ outcome.st = "resolved" => Loadable(source, world)
\* A response that is not OK: the message names the fetch and the source.
C23_Witness ==
  /\ call.fn = "loadJSON"
  /\ call.source = HttpsSource
  /\ call.world = NotOk(404)
  /\ returned =
       << RejectedWith(Error(<< "Unable to load JSON", " from \"" >> \o HttpsSource
                             \o << "\": ", "Unable to fetch", " " >> \o HttpsSource)) >>
  /\ fetched = << HttpsSource >>

(***************************************************************************)
(* C24.  isRedirect accepts a value exactly if it is a non-null object     *)
(* with a string location, a string redirect and no pattern or a string    *)
(* pattern; null, undefined, primitives and arrays are rejected.           *)
(***************************************************************************)
C24_IsRedirect ==
  (call.fn = "isRedirect" /\ returned # << >>) =>
    /\ returned[1] = DescribedRedirect(call.v)
    /\ call.v.t \in {"null", "undefined", "number", "string", "boolean", "array"}
         => returned[1] = FALSE
\* An object that is a redirect but for its pattern, which is a number.
C24_Witness ==
  /\ call.fn = "isRedirect"
  /\ call.v = WithProperty(ToJs(PlainRule), "pattern", JsNumber(123))
  /\ returned = << FALSE >>

(***************************************************************************)
(* C25.  isValidPrefix accepts a prefix exactly if it is one or more       *)
(* non-empty segments of lowercase letters, digits, "." and "-",           *)
(* separated by single "/": the empty text, a leading or trailing "/",     *)
(* "//" and any other character are rejected.                              *)
(***************************************************************************)
C25_IsValidPrefix ==
  (call.fn = "isValidPrefix" /\ returned # << >>) =>
    LET text == call.prefix
    IN  /\ returned[1] = DescribedPrefix(text)
        /\ returned[1] = (text \in ValidPrefixes)
        /\ ( \/ text = << >>
             \/ HasPrefix(text, << "/" >>)
             \/ HasSuffix(text, << "/" >>)
             \/ Contains(text, << "/", "/" >>)
             \/ ~MadeOf(text, NameCharacters \cup { "/" }) ) => returned[1] = FALSE
\* A prefix of two segments is accepted (and one with "//" is in the inputs).
C25_Witness ==
  /\ call.fn = "isValidPrefix"
  /\ call.prefix = << "d", "o", "c", "s", "/", "v", "5" >>
  /\ returned = << TRUE >>

(***************************************************************************)
(* C26.  isValidGeneralPurposeBucketName accepts a name exactly if it is   *)
(* 3 to 63 characters of lowercase letters, digits, "." and "-", begins    *)
(* and ends with a letter or digit, has no two adjacent periods, is not    *)
(* formatted as an IP address, and has none of the reserved prefixes and   *)
(* suffixes.                                                               *)
(***************************************************************************)
C26_IsValidBucketName ==
  (call.fn = "isValidGeneralPurposeBucketName" /\ returned # << >>) =>
    /\ returned[1] = DescribedBucketName(call.bucket)
    /\ returned[1] = (call.bucket \in ValidBucketNames)
\* The longest name is accepted (and the name one longer is in the inputs).
C26_Witness ==
  /\ call.fn = "isValidGeneralPurposeBucketName"
  /\ call.bucket = LongestName
  /\ returned = << TRUE >>

(***************************************************************************)
(* Definitions the properties of the scheduler share.                      *)
(***************************************************************************)
GroupCount == Len(redirectsByLocation)
\* the slots the fill loop makes: max of them, none for a max below 1
SlotCount == IF parallel > 0 THEN parallel ELSE 0
Steady == genPc \in {"race1", "yield1"}
Drain == genPc \in {"race2", "yield2", "ended"}
\* the slots and what each holds: a wrapped promise, or null once retired
Slots == IF Drain THEN tasksAndNull ELSE tasks
Holds(i, g) ==
  /\ i \in DOMAIN Slots
  /\ Slots[i] # Null
  /\ Slots[i] = Wrap(i, [done |-> FALSE, value |-> g])
HoldsMarker(i) == i \in DOMAIN Slots /\ Slots[i] = Wrap(i, [done |-> TRUE])
Unstarted(g) == g \notin DOMAIN ops \/ ops[g].st = "unstarted"

(***************************************************************************)
(* C27.  Lazy start in group order: the operations that have begun are     *)
(* those of the groups the scheduler has pulled from the source, one per   *)
(* group and in group (first-seen location) order; every other group's     *)
(* operation has not begun; and an operation begins only in a step in      *)
(* which the scheduler pulls it: in the fill loop, or when an outcome has  *)
(* won the race and is emitted.                                            *)
(***************************************************************************)
C27_LazyStart ==
  /\ [](Invoked =>
          /\ Len(ops) = GroupCount
          /\ srcPos <= GroupCount
          /\ srcPos <= SlotCount + Len(emitted)
          /\ started = [k \in 1 .. srcPos |-> k]
          /\ \A g \in Groups :
               IF g <= srcPos
               THEN /\ ops[g].st # "unstarted"
                    /\ ops[g].probes = 1
                    /\ ops[g].subPath = SubPathOf(redirectsByLocation[g].location)
               ELSE ops[g] = [st |-> "unstarted"]
          /\ \A g, h \in Groups :
               g < h => FirstSeen(redirectsByLocation[g].location)
                          < FirstSeen(redirectsByLocation[h].location))
  /\ [][\A g \in DOMAIN ops' :
          (Unstarted(g) /\ ops'[g].st # "unstarted") =>
            /\ srcPos < g /\ g <= srcPos'
            /\ \/ genPc = "none" /\ g <= parallel'
               \/ /\ genPc = "race1" /\ winner # Pending
                  /\ g = srcPos + 1
                  /\ Len(emitted') = Len(emitted) + 1]_vars
\* One outcome has been emitted, the operation pulled in its place is in
\* flight, and a later group's operation has not begun.
C27_Witness ==
  /\ Len(emitted) = 1
  /\ srcPos = 2
  /\ ops[2].st \in {"probing", "sending"}
  /\ GroupCount = 3
  /\ ops[3] = [st |-> "unstarted"]

(***************************************************************************)
(* C28.  Slot discipline: a slot holds one wrapped promise (its own        *)
(* index in it), no operation is in two slots, an operation that has       *)
(* begun and has not been emitted is still in the slot it was put in, and  *)
(* what a slot holds is replaced only in the step that emits the outcome   *)
(* of the operation it held, after that outcome has won the race.          *)
(***************************************************************************)
C28_SlotDiscipline ==
  /\ [](Invoked =>
          /\ Length(tasks) <= SlotCount
          /\ Steady => DOMAIN tasks = 0 .. parallel - 1
          /\ \A i \in DOMAIN Slots : Slots[i] # Null => Slots[i].i = i
          /\ \A g \in Groups :
               ~Unstarted(g) =>
                 /\ ops[g].slot \in 0 .. parallel - 1
                 /\ ~IsEmitted(g) => Holds(ops[g].slot, g)
                 /\ \A i \in DOMAIN Slots : Holds(i, g) => i = ops[g].slot)
  /\ [][\A i \in DOMAIN tasks \cap DOMAIN tasks' :
          tasks'[i] # tasks[i] =>
            /\ ~tasks[i].task.done
            /\ winner = << i, [done |-> FALSE, value |-> ops[tasks[i].task.value].value] >>
            /\ emitted' = Append(emitted, ops[tasks[i].task.value].value)]_vars
\* The operation of the second slot has been emitted and the slot refilled,
\* while the first slot still holds a resolved operation that has not been
\* emitted.
C28_Witness ==
  /\ genPc = "yield1"
  /\ parallel = 2
  /\ EmittedOps = << 2 >>
  /\ Holds(1, 3)
  /\ Holds(0, 1)
  /\ ops[1].st = "resolved"

(***************************************************************************)
(* C29.  Work conservation: when an outcome is handed to the consumer in   *)
(* steady state, the slot it came from already holds the next operation    *)
(* of the source, started in that step, or the exhaustion marker if the    *)
(* source had nothing left; and while the scheduler waits on the race of   *)
(* the steady state with groups still to start, every one of the N slots   *)
(* holds an operation.                                                     *)
(***************************************************************************)
C29_WorkConservation ==
  /\ genPc = "yield1" =>
       LET v == emitted[Len(emitted)]
           i == ops[v.op].slot
       IN  /\ processedCount = Len(emitted) - 1
           /\ IF HoldsMarker(i)
              THEN srcPos = GroupCount
              ELSE /\ Holds(i, srcPos)
                   /\ srcPos # v.op
                   /\ started[Len(started)] = srcPos
                   /\ ~IsEmitted(srcPos)
  /\ (genPc = "race1" /\ srcPos < GroupCount) =>
       /\ DOMAIN tasks = 0 .. parallel - 1
       /\ \A i \in DOMAIN tasks :
            \E g \in Groups : Holds(i, g) /\ ~Unstarted(g) /\ ~IsEmitted(g)
       /\ (winner = Pending /\ Rejected = {}) => Cardinality(InFlight) = SlotCount
\* An outcome is being handed over, its slot holds the operation started in
\* its place, and a group is still to start.
C29_Witness ==
  /\ genPc = "yield1"
  /\ parallel = 1
  /\ EmittedOps = << 1 >>
  /\ Holds(0, 2)
  /\ ops[2].st = "probing"
  /\ srcPos < GroupCount

(***************************************************************************)
(* C30.  The drain phase starts nothing: the scheduler leaves the steady   *)
(* state only in a step in which an exhaustion marker has won the race,    *)
(* and then every group's operation has begun; in the drain phase the      *)
(* source is not pulled, no slot gets a new promise, the slot that has     *)
(* won is retired, a retired slot stays retired and is in no race, and     *)
(* the set of operations in flight only shrinks.                           *)
(***************************************************************************)
C30_DrainStartsNothing ==
  /\ [](Drain =>
          /\ srcPos = GroupCount
          /\ \A g \in Groups : ~Unstarted(g)
          /\ tasks = EmptyArray
          /\ genPc = "race2" =>
               /\ \A k \in DOMAIN Racing(GenState) :
                    tasksAndNull[Racing(GenState)[k].i] = Racing(GenState)[k]
               /\ winner # Pending => tasksAndNull[winner[1]] # Null)
  /\ [][(Steady /\ Drain') => (genPc = "race1" /\ winner # Pending /\ winner[2].done)]_vars
  /\ [][Drain =>
          /\ Drain'
          /\ srcPos' = srcPos
          /\ started' = started
          /\ DOMAIN tasksAndNull' = DOMAIN tasksAndNull
          /\ \A i \in DOMAIN tasksAndNull : tasksAndNull'[i] \in { tasksAndNull[i], Null }
          /\ (genPc = "race2" /\ genPc' # "race2") => tasksAndNull'[winner[1]] = Null
          /\ InFlight' \subseteq InFlight]_vars
\* In the drain phase one slot is retired, an outcome has been emitted and
\* an operation is still in flight.
C30_Witness ==
  /\ genPc = "race2"
  /\ \E i \in DOMAIN tasksAndNull : tasksAndNull[i] = Null
  /\ \E i \in DOMAIN tasksAndNull : tasksAndNull[i] # Null
  /\ Len(emitted) >= 1
  /\ InFlight # {}

(***************************************************************************)
(* C31.  The branch is decided by the build directory alone: an operation  *)
(* that has passed its probe sends a CopyObject when its file is in the    *)
(* build directory and a PutObject when it is not, whatever the bucket     *)
(* holds at its key; and a PutObject that succeeds leaves the placeholder  *)
(* body at its key, also where an object was there before.                 *)
(***************************************************************************)
Decided(g) == g \in DOMAIN ops /\ "command" \in DOMAIN ops[g]
Placeholder == "<!doctype html><title>?</title>"
C31_LocalDecision ==
  /\ [](\A g \in DOMAIN ops :
          Decided(g) =>
            /\ ops[g].command.Key = FullPath(Prefix, ops[g].subPath)
            /\ IF ops[g].subPath \in buildFiles
               THEN ops[g].command.command = "CopyObject" /\ ops[g].copied
               ELSE ops[g].command.command = "PutObject" /\ ~ops[g].copied)
  /\ [][\A g \in DOMAIN ops :
          ( /\ ops[g].st = "sending"
            /\ ops'[g].st = "resolved"
            /\ ops'[g].result = "ok"
            /\ ops[g].subPath \notin buildFiles )
          => s3'[ops[g].command.Key].Body = Placeholder]_vars
\* Two operations are about to send: a PutObject to a key at which the
\* bucket holds a page, and a CopyObject of an object the bucket does not
\* hold.
C31_Witness ==
  /\ Decided(1) /\ Decided(2)
  /\ ops[1].st = "sending" /\ ops[2].st = "sending"
  /\ ops[1].command.command = "PutObject"
  /\ ops[1].command.Key \in DOMAIN s3
  /\ s3[ops[1].command.Key].Body = << "page of", KeyA >>
  /\ ops[2].command.command = "CopyObject"
  /\ ops[2].command.Key \notin DOMAIN s3
  /\ ops[2].subPath \in buildFiles
  /\ accessFails = NoFails

(***************************************************************************)
(* C32.  A limit below 1 is not refused: when the other inputs pass and    *)
(* the parallel input parses to a number, makeRedirectObjects is invoked   *)
(* with that number, and the parallel check fails only for a text that     *)
(* parses to none; with a limit of 0 or less parallelGenerator has no      *)
(* slot, starts no operation, emits nothing and stays at its first race    *)
(* for ever: no step of the run follows, however many groups there are.    *)
(***************************************************************************)
InvalidParallel ==
  Error(<< "Invalid integer value for parallel, got " >> \o parallelInput)
C32_NonPositiveLimit ==
  /\ []((runPc # "start" /\ InputsPass) =>
          /\ Invoked
          /\ parallelInput = << "0" >> => parallel = 0
          /\ parallelInput = << "-", "1" >> => parallel = 0 - 1)
  /\ [](setFailed = << InvalidParallel >> => ~DescribedNumber(parallelInput))
  /\ []((Invoked /\ parallel <= 0) =>
          /\ runPc = "making"
          /\ genPc = "race1"
          /\ winner = Pending
          /\ tasks = EmptyArray
          /\ srcPos = 0
          /\ started = << >>
          /\ \A g \in DOMAIN ops : ops[g] = [st |-> "unstarted"]
          /\ Len(ops) = Len(redirectsByLocation)
          /\ emitted = << >>
          /\ processedCount = 0
          /\ finishedWith = << >>
          /\ setFailed = << >>)
  /\ [][~(Invoked /\ parallel <= 0)]_vars
\* makeRedirectObjects runs with a limit of -1 and three groups, and the
\* generator waits at its first race.
C32_Witness ==
  /\ runPc = "making"
  /\ parallelInput = << "-", "1" >>
  /\ parallel < 0
  /\ Len(redirectsByLocation) = 3
  /\ genPc = "race1"
  /\ started = << >>

(***************************************************************************)
(* C33.  The plan is determined by the rule list, the prefix and the       *)
(* build directory: in a run that has finished every operation has sent    *)
(* one command, and the commands sent (key, kind, metadata, body) are the  *)
(* planned writes of the locations of the rule list, a set in which the    *)
(* limit and the order of completion do not appear; a write that           *)
(* succeeded has left at its key the placeholder (create) or the body      *)
(* that was there (update).                                                *)
(***************************************************************************)
PlannedWrite(location) ==
  LET subPath == SubPathOf(location)
  IN  CreateOrUpdate(subPath \in buildFiles, Prefix, subPath,
                     MetadataOf(RulesOf(location))).command
Plan == { PlannedWrite(location) : location \in InputLocations }
Writes == { ops[g].command : g \in { h \in DOMAIN ops : Decided(h) } }
C33_PlanDeterminism ==
  runPc = "finished" =>
    /\ Writes = Plan
    /\ Len(ops) = Cardinality(InputLocations)
    /\ \A g \in DOMAIN ops :
         /\ Decided(g)
         /\ ops[g].sends = 1
         /\ ops[g].command = PlannedWrite(redirectsByLocation[g].location)
         /\ ops[g].result = "ok" =>
              ObjectOf(g).Body = IF ops[g].copied
                                 THEN InitialObject(ops[g].subPath).Body
                                 ELSE Placeholder
\* A run with a limit of 2 has finished; the second operation's write
\* settled before the first one's, one write a create and one an update.
C33_Witness ==
  /\ runPc = "finished"
  /\ parallel = 2
  /\ settled = << 2, 1 >>
  /\ EmittedOps = << 2, 1 >>
  /\ Cardinality(Plan) = 2
  /\ { w.command : w \in Writes } = { "CopyObject", "PutObject" }

(***************************************************************************)
(* C34.  Progress of the aggregator: the processed count is 0 until the    *)
(* first outcome is taken, it is the number of outcomes the for-await      *)
(* loop has taken (each emitted outcome is counted once, in the step that  *)
(* takes it), it never exceeds the number of groups, so the percentage     *)
(* logged never exceeds 100.0, and the error count goes up only with the   *)
(* processed count, by at most 1, and never exceeds it.                    *)
(***************************************************************************)
\* ((processedCount / redirectsByLocation.size) * 100).toFixed(1), in tenths
ProcessedTenths(count, size) == (count * 2000 + size) \div (2 * size)
AtYield == genPc \in {"yield1", "yield2"}
C34_AggregatorProgress ==
  /\ [](/\ emitted = << >> => processedCount = 0
        /\ processedCount = IF AtYield THEN Len(emitted) - 1 ELSE Len(emitted)
        /\ processedCount <= Len(redirectsByLocation)
        /\ processedCount > 0 =>
             ProcessedTenths(processedCount, Len(redirectsByLocation)) <= 1000
        /\ errorCount <= processedCount
        /\ errorCount >= 0)
  /\ [][/\ processedCount' \in { processedCount, processedCount + 1 }
        /\ errorCount' \in { errorCount, errorCount + 1 }
        /\ processedCount' = processedCount + 1 => (AtYield /\ emitted' = emitted)
        /\ Len(emitted') = Len(emitted) + 1 => (AtYield' /\ processedCount' = processedCount)
        /\ errorCount' = errorCount + 1 =>
             /\ processedCount' = processedCount + 1
             /\ "error" \in DOMAIN emitted[Len(emitted)]]_vars
\* Every one of three outcomes has been counted, two of them as errors.
C34_Witness ==
  /\ runPc = "making"
  /\ Len(redirectsByLocation) = 3
  /\ processedCount = 3
  /\ errorCount = 2
  /\ ProcessedTenths(processedCount, Len(redirectsByLocation)) = 1000

(***************************************************************************)
(* C35.  Every error is reported once: setFailed is called at most once,   *)
(* only after something has thrown; an input check that throws is          *)
(* reported with its error; and once an operation has rejected and the     *)
(* run can go no further, setFailed has been called once.                  *)
(***************************************************************************)
C35_EveryErrorReported ==
  /\ Len(setFailed) <= 1
  /\ setFailed # << >> => (MainInputs.threw \/ Rejected # {})
  /\ (runPc # "start" /\ MainInputs.threw) =>
       /\ runPc = "failed"
       /\ setFailed = << RunCatch(MainInputs.error) >>
  /\ runPc = "finished" => setFailed = << >>
  /\ (Rejected # {} /\ (RejectedAndIdle \/ runPc = "crashed")) =>
       Len(setFailed) = 1

(***************************************************************************)
(* C36.  Exhaustion markers are never emitted: every value yielded is the  *)
(* outcome some group's operation resolved with; and the step that         *)
(* resumes the generator after a marker has won a race, in the first loop  *)
(* or in the second, retires the marker's slot and yields nothing.         *)
(***************************************************************************)
MarkerWon == genPc \in {"race1", "race2"} /\ winner # Pending /\ winner[2].done
C36_MarkersNotEmitted ==
  /\ [](\A k \in 1 .. Len(emitted) :
          /\ emitted[k] # Undefined
          /\ "op" \in DOMAIN emitted[k]
          /\ emitted[k].op \in Groups
          /\ ops[emitted[k].op].st = "resolved"
          /\ emitted[k] = ops[emitted[k].op].value)
  /\ [][(MarkerWon /\ (winner' # winner \/ genPc' # genPc)) =>
          /\ emitted' = emitted
          /\ ~AtYield'
          /\ Drain'
          /\ tasksAndNull'[winner[1]] = Null]_vars
\* Of three slots two held markers: one has won the race of the first loop
\* and one a race of the second, both are retired and nothing has been
\* emitted, while the only group's operation is still in flight.
C36_Witness ==
  /\ genPc = "race2"
  /\ parallel = 3
  /\ Len(redirectsByLocation) = 1
  /\ tasksAndNull[1] = Null
  /\ tasksAndNull[2] = Null
  /\ Holds(0, 1)
  /\ InFlight = {1}
  /\ emitted = << >>

(***************************************************************************)
(* C37.  Slot identity in the second loop: the step that resumes the       *)
(* generator after a race over the filtered list retires the slot whose    *)
(* index the winning result carries, which is the slot that holds the      *)
(* promise that won, and no other slot; so an operation that has begun     *)
(* and has not been emitted is still in its slot.                          *)
(***************************************************************************)
C37_DrainSlotIdentity ==
  /\ [](Drain =>
          \A g \in Groups :
            (~Unstarted(g) /\ ~IsEmitted(g)) => Holds(ops[g].slot, g))
  /\ [][(genPc = "race2" /\ winner # Pending /\ (winner' # winner \/ genPc' # genPc)) =>
          LET i == winner[1]
          IN  /\ i \in DOMAIN tasksAndNull
              /\ tasksAndNull[i] # Null
              /\ tasksAndNull[i].i = i
              /\ WrapResolved(tasksAndNull[i], ops)
              /\ WrapValue(tasksAndNull[i], ops) = winner
              /\ tasksAndNull' = [tasksAndNull EXCEPT ![i] = Null]
              /\ ~winner[2].done =>
                   /\ emitted' = Append(emitted, winner[2].value)
                   /\ ops[winner[2].value.op].slot = i]_vars
\* In the second loop the third slot has won and is retired, second in the
\* filtered list; the second slot, first in that list, still holds an
\* operation whose outcome has not been emitted.
C37_Witness ==
  /\ genPc = "yield2"
  /\ parallel = 3
  /\ EmittedOps = << 1, 3 >>
  /\ tasksAndNull[0] = Null
  /\ tasksAndNull[2] = Null
  /\ Holds(1, 2)
  /\ ~IsEmitted(2)
====
